---------------------------- MODULE Spec2Model ----------------------------
(***************************************************************************)
(* zweg: ZweiteGPS JSON -> GPX 1.1 converter.                              *)
(*                                                                         *)
(* Go strings are modelled as sequences of one-character strings, so that  *)
(* indexing, slicing, splitting and substring search are what the code     *)
(* does to them.  The non-ASCII "±" of the error messages is written "+-". *)
(***************************************************************************)
EXTENDS Integers, Sequences, FiniteSets, TLC

VARIABLES
    tzPc, tzIn, tzOut,         \* ParseTimezoneOffset: position, argument, result
    vpPc, vpIn, vpCwd, vpOut,  \* validateOutputPath: position, argument,
                               \* working directory, result
    cvPc, cvConfig, cvPoints, cvName, cvOut,
                               \* converter.New(config).Convert(points, name)
    \* CLI.Run(inputFile, outputFile, outputDir, trackName, timezoneOffset):
    runInputFile, runOutputFile, runOutputDir, runTrackName, runTimezoneOffset,
    runCwd,                    \* working directory of the process
    runReader,                 \* the Reader the CLI was built with
    runPc,                     \* position of Run
    runContent,                \* what the reader found at runInputFile
    runPoints, runOutPath, runName, runGpxData,
                               \* Run's locals: points, outputFile as
                               \* resolved, trackName as defaulted, gpxData
    runErr,                    \* the error Run returns (at runPc = "done")
    dirs, created,             \* directories that exist; those Run made
    files,                     \* output files by absolute path
    stdout,                    \* lines printed to c.stdout
    calls,                     \* collaborator calls made so far, in order
    ptPc, ptIn, ptOut,         \* Point accessors: position, the point, results
    \* The command (cmd/zweg): main and run.
    mainPc,                    \* position of main
    mainFlags,                 \* the command line as package flag parses it
    mainErr,                   \* the error run returns to main
    exitCode,                  \* exit status of the process, -1 while it runs
    stderr,                    \* what was printed to os.Stderr
    \* A shell loop that runs the command once for each input file.
    batchTodo,                 \* input files still to convert, in order
    batchDone                  \* the runs made: input, resolved path, error

varsTz == <<tzPc, tzIn, tzOut>>
varsVp == <<vpPc, vpIn, vpCwd, vpOut>>
varsCv == <<cvPc, cvConfig, cvPoints, cvName, cvOut>>
varsArgs == <<runInputFile, runOutputFile, runOutputDir, runTrackName, runTimezoneOffset,
              runCwd, runReader>>
varsRun == <<varsArgs, runPc, runContent, runPoints, runOutPath, runName, runGpxData, runErr,
             dirs, created, files, stdout, calls>>
varsPt == <<ptPc, ptIn, ptOut>>
varsMain == <<mainPc, mainFlags, mainErr, exitCode, stderr>>
varsBatch == <<batchTodo, batchDone>>
vars == <<varsTz, varsVp, varsCv, varsRun, varsPt, varsMain, varsBatch>>

(***************************************************************************)
(* Bounds of the model.                                                    *)
(***************************************************************************)
MaxTzLen == 6                  \* longest --timezone-offset string explored
MaxPathLen == 9                \* longest path handed to validateOutputPath
MaxAlLen == 2                  \* longest altitude string of a point
MaxPoints == 2                 \* most points of a track
MaxBatch == 3      \* input files converted by one shell loop
MaxTrack == 3                  \* most points of a track of sample points

(***************************************************************************)
(* Strings.                                                                *)
(***************************************************************************)
\* All sequences over S of length at most n.
SeqUpTo(S, n) == UNION {[1..k -> S] : k \in 0..n}

\* strings.Contains(s, c) for a one-character c.
ContainsChar(s, c) == \E i \in 1..Len(s) : s[i] = c

\* Index of the first c in s (0 when there is none).
IndexChar(s, c) ==
    IF ContainsChar(s, c)
    THEN CHOOSE i \in 1..Len(s) : s[i] = c /\ \A j \in 1..(i - 1) : s[j] # c
    ELSE 0

\* strings.Split(s, c) for a one-character separator c.
RECURSIVE Split(_, _)
Split(s, c) ==
    IF ~ContainsChar(s, c) THEN <<s>>
    ELSE LET i == IndexChar(s, c)
         IN  <<SubSeq(s, 1, i - 1)>> \o Split(SubSeq(s, i + 1, Len(s)), c)

Digits == {"0", "1", "2", "3", "4", "5", "6", "7", "8", "9"}

DigitVal(c) ==
    CASE c = "0" -> 0 [] c = "1" -> 1 [] c = "2" -> 2 [] c = "3" -> 3
      [] c = "4" -> 4 [] c = "5" -> 5 [] c = "6" -> 6 [] c = "7" -> 7
      [] c = "8" -> 8 [] c = "9" -> 9

\* Value of a sequence of decimal digits.
RECURSIVE DecVal(_)
DecVal(s) ==
    IF s = <<>> THEN 0
    ELSE 10 * DecVal(SubSeq(s, 1, Len(s) - 1)) + DigitVal(s[Len(s)])

\* strconv.Atoi: an optional leading "+" or "-", then one or more decimal
\* digits and nothing else.  ok = FALSE is Atoi's syntax error.
Atoi(s) ==
    IF s = <<>> THEN [val |-> 0, ok |-> FALSE]
    ELSE LET signed == s[1] \in {"+", "-"}
             body   == IF signed THEN Tail(s) ELSE s
         IN  IF body = <<>> \/ \E i \in 1..Len(body) : body[i] \notin Digits
             THEN [val |-> 0, ok |-> FALSE]
             ELSE [val |-> IF s[1] = "-" THEN -DecVal(body) ELSE DecVal(body),
                   ok  |-> TRUE]

(***************************************************************************)
(* Errors.  An error is the fixed text of its message: the part before the *)
(* quoted value (msg), the parenthesised hint after it (expected) and, for *)
(* the field parse errors, the quoted field value (value).  Wrap is        *)
(* fmt.Errorf("<prefix>: %w", err).                                        *)
(***************************************************************************)
NoErr == [msg |-> "", expected |-> "", value |-> <<>>]
Err(m, e) == [msg |-> m, expected |-> e, value |-> <<>>]
ErrValue(m, v) == [msg |-> m, expected |-> "", value |-> v]
Wrap(prefix, e) == [e EXCEPT !.msg = prefix \o ": " \o e.msg]

(***************************************************************************)
(* Paths (package path/filepath, Unix).                                    *)
(***************************************************************************)
\* strings.Contains(s, "..").
ContainsDotDot(s) == \E i \in 1..(Len(s) - 1) : s[i] = "." /\ s[i + 1] = "."

\* strings.Join(elems, "/").
RECURSIVE JoinSlash(_)
JoinSlash(elems) ==
    IF elems = <<>> THEN <<>>
    ELSE IF Len(elems) = 1 THEN elems[1]
    ELSE elems[1] \o <<"/">> \o JoinSlash(Tail(elems))

\* The element loop of filepath.Clean: empty and "." elements are skipped, a
\* ".." removes the element before it when there is one that is not itself
\* "..", is kept when the path is relative, and is dropped at the root.
RECURSIVE CleanElems(_, _, _)
CleanElems(elems, out, rooted) ==
    IF elems = <<>> THEN out
    ELSE LET e == Head(elems)
         IN  IF e = <<>> \/ e = <<".">>
             THEN CleanElems(Tail(elems), out, rooted)
             ELSE IF e = <<".", ".">>
             THEN IF out # <<>> /\ out[Len(out)] # <<".", ".">>
                  THEN CleanElems(Tail(elems), SubSeq(out, 1, Len(out) - 1), rooted)
                  ELSE IF ~rooted
                  THEN CleanElems(Tail(elems), Append(out, e), rooted)
                  ELSE CleanElems(Tail(elems), out, rooted)
             ELSE CleanElems(Tail(elems), Append(out, e), rooted)

\* filepath.Clean.
Clean(path) ==
    IF path = <<>> THEN <<".">>
    ELSE LET rooted == path[1] = "/"
             out    == CleanElems(Split(path, "/"), <<>>, rooted)
         IN  IF rooted THEN <<"/">> \o JoinSlash(out)
             ELSE IF out = <<>> THEN <<".">>
             ELSE JoinSlash(out)

\* filepath.IsAbs.
IsAbs(path) == path # <<>> /\ path[1] = "/"

\* filepath.Join of two elements.
Join(a, b) ==
    IF a # <<>> THEN Clean(a \o <<"/">> \o b)
    ELSE IF b # <<>> THEN Clean(b)
    ELSE <<>>

\* filepath.Dir: the cleaned text up to and including the last separator.
Dir(path) ==
    LET seps == {i \in 1..Len(path) : path[i] = "/"}
        last == IF seps = {} THEN 0 ELSE CHOOSE i \in seps : \A j \in seps : j <= i
    IN  Clean(SubSeq(path, 1, last))

\* filepath.Abs in a process whose working directory is cwd (os.Getwd is
\* taken to succeed: the process runs in an existing directory).
Abs(path, cwd) == IF IsAbs(path) THEN Clean(path) ELSE Join(cwd, path)

ErrPathEmpty == Err("output path is empty", "")
ErrPathTraversal == Err("path contains invalid relative path components", "")

\* validateOutputPath with the ".." search run on the path as given.
validateOutputPath_Uncleaned(path, cwd) ==
    IF path = <<>> THEN [path |-> <<>>, err |-> ErrPathEmpty]
    ELSE IF ContainsDotDot(path) THEN [path |-> <<>>, err |-> ErrPathTraversal]
    ELSE [path |-> Abs(Clean(path), cwd), err |-> NoErr]

validateOutputPath(path, cwd) ==
    IF path = <<>> THEN [path |-> <<>>, err |-> ErrPathEmpty]
    ELSE LET cleaned == Clean(path)
             absPath == Abs(cleaned, cwd)
         IN  IF ContainsDotDot(cleaned)
             THEN [path |-> <<>>, err |-> ErrPathTraversal]
             ELSE [path |-> absPath, err |-> NoErr]

(***************************************************************************)
(* Point model (internal/models) and converter (internal/converter).       *)
(*                                                                         *)
(* A time.Time is the pair of its instant (Unix seconds) and the offset of *)
(* the zone it is represented in.  A float64 altitude is modelled exactly, *)
(* as an integer count of 10^-MaxAlLen metres.                             *)
(***************************************************************************)
AlScale == 10 ^ MaxAlLen

\* strconv.ParseFloat(s, 64) on strings made of a sign, decimal digits, "."
\* and characters that occur in no float syntax: an optional sign, then
\* digits with at most one ".", at least one digit in all.
ParseFloat(s) ==
    LET signed == s # <<>> /\ s[1] \in {"+", "-"}
        body   == IF signed THEN Tail(s) ELSE s
        dots   == {i \in 1..Len(body) : body[i] = "."}
        wellFormed ==
            /\ \A i \in 1..Len(body) : body[i] \in Digits \cup {"."}
            /\ Cardinality(dots) <= 1
            /\ \E i \in 1..Len(body) : body[i] \in Digits
    IN  IF ~wellFormed THEN [val |-> 0, ok |-> FALSE]
        ELSE LET d     == IF dots = {} THEN Len(body) + 1 ELSE CHOOSE i \in dots : TRUE
                 whole == SubSeq(body, 1, d - 1)
                 frac  == SubSeq(body, d + 1, Len(body))
                 mag   == DecVal(whole) * AlScale
                            + DecVal(frac) * (10 ^ (MaxAlLen - Len(frac)))
             IN  [val |-> IF s[1] = "-" THEN -mag ELSE mag, ok |-> TRUE]

\* Point.Timestamp giving the instant in the zone of the run's offset.
Timestamp_InRunZone(p) == [unix |-> p.Tm, offset |-> runTimezoneOffset]

\* Point.Timestamp: time.Unix(p.Tm, 0).UTC().
Timestamp(p) == [unix |-> p.Tm, offset |-> 0]

\* Point.Altitude taking an unparsable string for 0.
Altitude_DefaultZero(p) ==
    IF p.Al = <<>> THEN [val |-> 0, err |-> NoErr]
    ELSE IF ~ParseFloat(p.Al).ok
    THEN [val |-> 0, err |-> NoErr]
    ELSE [val |-> ParseFloat(p.Al).val, err |-> NoErr]

\* Point.Altitude.
Altitude(p) ==
    IF p.Al = <<>> THEN [val |-> 0, err |-> NoErr]
    ELSE IF ~ParseFloat(p.Al).ok
    THEN [val |-> 0, err |-> ErrValue("failed to parse altitude", p.Al)]
    ELSE [val |-> ParseFloat(p.Al).val, err |-> NoErr]

\* Point.Speed reading the altitude field.
Speed_ReadsAltitude(p) ==
    IF p.Al = <<>> THEN [val |-> 0, err |-> NoErr]
    ELSE IF ~ParseFloat(p.Al).ok
    THEN [val |-> 0, err |-> ErrValue("failed to parse speed", p.Al)]
    ELSE [val |-> ParseFloat(p.Al).val, err |-> NoErr]

\* Point.Speed.
Speed(p) ==
    IF p.Sp = <<>> THEN [val |-> 0, err |-> NoErr]
    ELSE IF ~ParseFloat(p.Sp).ok
    THEN [val |-> 0, err |-> ErrValue("failed to parse speed", p.Sp)]
    ELSE [val |-> ParseFloat(p.Sp).val, err |-> NoErr]

\* Point.Distance.
Distance(p) ==
    IF p.Ds = <<>> THEN [val |-> 0, err |-> NoErr]
    ELSE IF ~ParseFloat(p.Ds).ok
    THEN [val |-> 0, err |-> ErrValue("failed to parse distance", p.Ds)]
    ELSE [val |-> ParseFloat(p.Ds).val, err |-> NoErr]

\* converter.DefaultConfig.
DefaultConfig ==
    [Version |-> "1.1", Creator |-> "zweg - ZweiteGPS to GPX Converter",
     IncludeWaypoint |-> TRUE]

\* A nil *Config.
NilConfig == [nil |-> TRUE]

\* converter.New: the configuration the converter keeps.
New(config) == IF config = NilConfig THEN DefaultConfig ELSE config

\* A nil *gpx.GPX.
NilGPX == [nil |-> TRUE]

\* gpx.WptType with the fields the converter sets.
WptType(lat, lon, ele, time, name) ==
    [Lat |-> lat, Lon |-> lon, Ele |-> ele, Time |-> time, Name |-> name]

\* addWaypoints choosing the earliest and the latest point by timestamp.
addWaypoints_ByTime(g, points) ==
    LET idx        == 1..Len(points)
        firstPoint == points[CHOOSE i \in idx : \A j \in idx :
                               points[i].Tm < points[j].Tm
                               \/ (points[i].Tm = points[j].Tm /\ i <= j)]
        firstAlt   == Altitude(firstPoint)
        lastPoint  == points[CHOOSE i \in idx : \A j \in idx :
                               points[i].Tm > points[j].Tm
                               \/ (points[i].Tm = points[j].Tm /\ i >= j)]
        lastAlt    == Altitude(lastPoint)
        start      == WptType(firstPoint.La, firstPoint.Lo, firstAlt.val,
                              Timestamp(firstPoint), "Start")
        goal       == WptType(lastPoint.La, lastPoint.Lo, lastAlt.val,
                              Timestamp(lastPoint), "Goal")
    IN  IF firstAlt.err # NoErr
        THEN [gpx |-> g, err |-> Wrap("failed to parse start altitude", firstAlt.err)]
        ELSE IF lastAlt.err # NoErr
        THEN [gpx |-> [g EXCEPT !.Wpt = Append(g.Wpt, start)],
              err |-> Wrap("failed to parse end altitude", lastAlt.err)]
        ELSE [gpx |-> [g EXCEPT !.Wpt = Append(Append(g.Wpt, start), goal)],
              err |-> NoErr]

\* GPXConverter.addWaypoints, on the document g.
addWaypoints(g, points) ==
    LET firstPoint == points[1]
        firstAlt   == Altitude(firstPoint)
        lastPoint  == points[Len(points)]
        lastAlt    == Altitude(lastPoint)
        start      == WptType(firstPoint.La, firstPoint.Lo, firstAlt.val,
                              Timestamp(firstPoint), "Start")
        goal       == WptType(lastPoint.La, lastPoint.Lo, lastAlt.val,
                              Timestamp(lastPoint), "Goal")
    IN  IF firstAlt.err # NoErr
        THEN [gpx |-> g, err |-> Wrap("failed to parse start altitude", firstAlt.err)]
        ELSE IF lastAlt.err # NoErr
        THEN [gpx |-> [g EXCEPT !.Wpt = Append(g.Wpt, start)],
              err |-> Wrap("failed to parse end altitude", lastAlt.err)]
        ELSE [gpx |-> [g EXCEPT !.Wpt = Append(Append(g.Wpt, start), goal)],
              err |-> NoErr]

\* The track-point loop with each point put in front of the segment.
RECURSIVE TrkPtLoop_Prepend(_, _, _)
TrkPtLoop_Prepend(points, i, trkPt) ==
    IF i > Len(points) THEN [pts |-> trkPt, err |-> NoErr]
    ELSE LET point == points[i]
             alt   == Altitude(point)
         IN  IF alt.err # NoErr
             THEN [pts |-> trkPt,
                   err |-> Wrap("failed to parse altitude at point " \o ToString(i - 1),
                                alt.err)]
             ELSE TrkPtLoop_Prepend(points, i + 1,
                      <<WptType(point.La, point.Lo, alt.val, Timestamp(point), "")>>
                        \o trkPt)

\* The track-point loop also asking each point for its speed.
RECURSIVE TrkPtLoop_ChecksSpeed(_, _, _)
TrkPtLoop_ChecksSpeed(points, i, trkPt) ==
    IF i > Len(points) THEN [pts |-> trkPt, err |-> NoErr]
    ELSE LET point == points[i]
             alt   == Altitude(point)
         IN  IF alt.err # NoErr
             THEN [pts |-> trkPt,
                   err |-> Wrap("failed to parse altitude at point " \o ToString(i - 1),
                                alt.err)]
             ELSE IF Speed(point).err # NoErr
             THEN [pts |-> trkPt,
                   err |-> Wrap("failed to parse speed at point " \o ToString(i - 1),
                                Speed(point).err)]
             ELSE TrkPtLoop_ChecksSpeed(points, i + 1,
                      Append(trkPt, WptType(point.La, point.Lo, alt.val,
                                            Timestamp(point), "")))

\* The track-point loop of Convert, from the i-th point (1-based) on, with
\* the segment built so far.
RECURSIVE TrkPtLoop(_, _, _)
TrkPtLoop(points, i, trkPt) ==
    IF i > Len(points) THEN [pts |-> trkPt, err |-> NoErr]
    ELSE LET point == points[i]
             alt   == Altitude(point)
         IN  IF alt.err # NoErr
             THEN [pts |-> trkPt,
                   err |-> Wrap("failed to parse altitude at point " \o ToString(i - 1),
                                alt.err)]
             ELSE TrkPtLoop(points, i + 1,
                      Append(trkPt, WptType(point.La, point.Lo, alt.val,
                                            Timestamp(point), "")))

\* Convert without the check for an empty track: the document of no points.
Convert_NoEmptyCheck(config, points, trackName) ==
    LET name == IF trackName = "" THEN "Track" ELSE trackName
        g    == [Version |-> config.Version, Creator |-> config.Creator,
                 Metadata |-> [Name |-> name, Time |-> [unix |-> 0, offset |-> 0]],
                 Wpt |-> <<>>, Trk |-> <<>>]
        w    == IF config.IncludeWaypoint /\ Len(points) > 0
                THEN addWaypoints(g, points)
                ELSE [gpx |-> g, err |-> NoErr]
        loop == TrkPtLoop(points, 1, <<>>)
    IN  IF w.err # NoErr
        THEN [gpx |-> NilGPX, err |-> Wrap("failed to add waypoints", w.err)]
        ELSE IF loop.err # NoErr
        THEN [gpx |-> NilGPX, err |-> loop.err]
        ELSE [gpx |-> [w.gpx EXCEPT
                         !.Trk = <<[Name |-> name,
                                    TrkSeg |-> <<[TrkPt |-> loop.pts]>>]>>],
              err |-> NoErr]

\* Convert naming the track as given, the metadata alone getting the
\* default name.
Convert_TrackNamedAsGiven(config, points, trackName) ==
    IF Len(points) = 0
    THEN [gpx |-> NilGPX, err |-> Err("no data points provided", "")]
    ELSE LET name == IF trackName = "" THEN "Track" ELSE trackName
             g    == [Version |-> config.Version, Creator |-> config.Creator,
                      Metadata |-> [Name |-> name, Time |-> Timestamp(points[1])],
                      Wpt |-> <<>>, Trk |-> <<>>]
             w    == IF config.IncludeWaypoint THEN addWaypoints(g, points)
                     ELSE [gpx |-> g, err |-> NoErr]
             loop == TrkPtLoop(points, 1, <<>>)
         IN  IF w.err # NoErr
             THEN [gpx |-> NilGPX, err |-> Wrap("failed to add waypoints", w.err)]
             ELSE IF loop.err # NoErr
             THEN [gpx |-> NilGPX, err |-> loop.err]
             ELSE [gpx |-> [w.gpx EXCEPT
                              !.Trk = <<[Name |-> trackName,
                                         TrkSeg |-> <<[TrkPt |-> loop.pts]>>]>>],
                   err |-> NoErr]

\* GPXConverter.Convert, for a converter holding config.
Convert(config, points, trackName) ==
    IF Len(points) = 0
    THEN [gpx |-> NilGPX, err |-> Err("no data points provided", "")]
    ELSE LET name == IF trackName = "" THEN "Track" ELSE trackName
             g    == [Version |-> config.Version, Creator |-> config.Creator,
                      Metadata |-> [Name |-> name, Time |-> Timestamp(points[1])],
                      Wpt |-> <<>>, Trk |-> <<>>]
             w    == IF config.IncludeWaypoint THEN addWaypoints(g, points)
                     ELSE [gpx |-> g, err |-> NoErr]
             loop == TrkPtLoop(points, 1, <<>>)
         IN  IF w.err # NoErr
             THEN [gpx |-> NilGPX, err |-> Wrap("failed to add waypoints", w.err)]
             ELSE IF loop.err # NoErr
             THEN [gpx |-> NilGPX, err |-> loop.err]
             ELSE [gpx |-> [w.gpx EXCEPT
                              !.Trk = <<[Name |-> name,
                                         TrkSeg |-> <<[TrkPt |-> loop.pts]>>]>>],
                   err |-> NoErr]

(***************************************************************************)
(* Timestamps in file names: Point.TimestampWithOffset and                 *)
(* time.Time.Format("20060102-150405").                                    *)
(***************************************************************************)
\* Point.TimestampWithOffset: the same instant, represented in the fixed
\* zone offsetSeconds east of UTC.
TimestampWithOffset(p, offsetSeconds) == [unix |-> p.Tm, offset |-> offsetSeconds]

\* The decimal digits of n >= 0, zero-padded on the left to width characters.
RECURSIVE Pad(_, _)
Pad(n, width) ==
    IF width = 0 THEN <<>>
    ELSE Pad(n \div 10, width - 1)
           \o <<CASE n % 10 = 0 -> "0" [] n % 10 = 1 -> "1" [] n % 10 = 2 -> "2"
                  [] n % 10 = 3 -> "3" [] n % 10 = 4 -> "4" [] n % 10 = 5 -> "5"
                  [] n % 10 = 6 -> "6" [] n % 10 = 7 -> "7" [] n % 10 = 8 -> "8"
                  [] n % 10 = 9 -> "9">>

\* The civil date (proleptic Gregorian) of the day `days` days after
\* 1970-01-01, as time.Time computes it.
CivilFromDays(days) ==
    LET z   == days + 719468
        era == z \div 146097
        doe == z - era * 146097
        yoe == (doe - doe \div 1460 + doe \div 36524 - doe \div 146096) \div 365
        doy == doe - (365 * yoe + yoe \div 4 - yoe \div 100)
        mp  == (5 * doy + 2) \div 153
        d   == doy - (153 * mp + 2) \div 5 + 1
        m   == IF mp < 10 THEN mp + 3 ELSE mp - 9
        y   == yoe + era * 400 + (IF m <= 2 THEN 1 ELSE 0)
    IN  [year |-> y, month |-> m, day |-> d]

\* t.Format("20060102-150405"): the wall clock of t in its own zone.
FormatTime(t) ==
    LET wall == t.unix + t.offset
        date == CivilFromDays(wall \div 86400)
        sec  == wall % 86400
    IN  Pad(date.year, 4) \o Pad(date.month, 2) \o Pad(date.day, 2) \o <<"-">>
          \o Pad(sec \div 3600, 2) \o Pad((sec % 3600) \div 60, 2) \o Pad(sec % 60, 2)

DotGpx == <<".", "g", "p", "x">>

(***************************************************************************)
(* Output path resolution (pkg/cli).                                       *)
(***************************************************************************)
\* generateOutputFilename with the time zone offset left out of the name.
generateOutputFilename_IgnoreOffset(inputFile, outputDir, points, timezoneOffset, cwd) ==
    IF Len(points) = 0 THEN [path |-> inputFile \o DotGpx, err |-> NoErr]
    ELSE LET baseName == FormatTime(Timestamp(points[1])) \o DotGpx
             v == validateOutputPath(outputDir, cwd)
         IN  IF outputDir = <<>>
             THEN [path |-> Join(Dir(inputFile), baseName), err |-> NoErr]
             ELSE IF v.err # NoErr
             THEN [path |-> <<>>, err |-> Wrap("invalid output directory", v.err)]
             ELSE [path |-> Join(v.path, baseName), err |-> NoErr]

\* generateOutputFilename falling back to the input file's directory when
\* the output directory is refused.
generateOutputFilename_FallBack(inputFile, outputDir, points, timezoneOffset, cwd) ==
    IF Len(points) = 0 THEN [path |-> inputFile \o DotGpx, err |-> NoErr]
    ELSE LET firstPoint == points[1]
             timestamp  == IF timezoneOffset = 0 THEN Timestamp(firstPoint)
                           ELSE TimestampWithOffset(firstPoint, timezoneOffset)
             baseName   == FormatTime(timestamp) \o DotGpx
             v          == validateOutputPath(outputDir, cwd)
         IN  IF outputDir = <<>> \/ v.err # NoErr
             THEN [path |-> Join(Dir(inputFile), baseName), err |-> NoErr]
             ELSE [path |-> Join(v.path, baseName), err |-> NoErr]

\* generateOutputFilename validating the output directory before it looks
\* at the points.
generateOutputFilename_ValidatesFirst(inputFile, outputDir, points, timezoneOffset, cwd) ==
    LET v == validateOutputPath(outputDir, cwd)
    IN  IF outputDir # <<>> /\ v.err # NoErr
        THEN [path |-> <<>>, err |-> Wrap("invalid output directory", v.err)]
        ELSE IF Len(points) = 0 THEN [path |-> inputFile \o DotGpx, err |-> NoErr]
        ELSE LET firstPoint == points[1]
                 timestamp  == IF timezoneOffset = 0 THEN Timestamp(firstPoint)
                               ELSE TimestampWithOffset(firstPoint, timezoneOffset)
                 baseName   == FormatTime(timestamp) \o DotGpx
             IN  IF outputDir = <<>>
                 THEN [path |-> Join(Dir(inputFile), baseName), err |-> NoErr]
                 ELSE [path |-> Join(v.path, baseName), err |-> NoErr]

\* CLI.generateOutputFilename, in a process whose working directory is cwd.
generateOutputFilename(inputFile, outputDir, points, timezoneOffset, cwd) ==
    IF Len(points) = 0 THEN [path |-> inputFile \o DotGpx, err |-> NoErr]
    ELSE LET firstPoint == points[1]
             timestamp  == IF timezoneOffset = 0 THEN Timestamp(firstPoint)
                           ELSE TimestampWithOffset(firstPoint, timezoneOffset)
             baseName   == FormatTime(timestamp) \o DotGpx
             v          == validateOutputPath(outputDir, cwd)
         IN  IF outputDir = <<>>
             THEN [path |-> Join(Dir(inputFile), baseName), err |-> NoErr]
             ELSE IF v.err # NoErr
             THEN [path |-> <<>>, err |-> Wrap("invalid output directory", v.err)]
             ELSE [path |-> Join(v.path, baseName), err |-> NoErr]

\* The output path resolution of Run, with the explicit output directory
\* validated even when an output file is given.
ResolveOutput_ValidateDirToo(inputFile, outputFile, outputDir, points, timezoneOffset, cwd) ==
    LET g == generateOutputFilename(inputFile, outputDir, points, timezoneOffset, cwd)
        v == validateOutputPath(outputFile, cwd)
        d == validateOutputPath(outputDir, cwd)
    IN  IF outputFile = <<>>
        THEN IF g.err # NoErr
             THEN [path |-> <<>>, err |-> Wrap("failed to generate output filename", g.err)]
             ELSE g
        ELSE IF outputDir # <<>> /\ d.err = NoErr
        THEN [path |-> Join(d.path, outputFile), err |-> NoErr]
        ELSE IF v.err # NoErr
        THEN [path |-> <<>>, err |-> Wrap("invalid output file path", v.err)]
        ELSE v

\* The output path resolution of Run refusing a bad output directory also
\* when an output file is given.
ResolveOutput_ChecksDir(inputFile, outputFile, outputDir, points, timezoneOffset, cwd) ==
    LET g == generateOutputFilename(inputFile, outputDir, points, timezoneOffset, cwd)
        v == validateOutputPath(outputFile, cwd)
        d == validateOutputPath(outputDir, cwd)
    IN  IF outputFile = <<>>
        THEN IF g.err # NoErr
             THEN [path |-> <<>>, err |-> Wrap("failed to generate output filename", g.err)]
             ELSE g
        ELSE IF outputDir # <<>> /\ d.err # NoErr
        THEN [path |-> <<>>, err |-> Wrap("invalid output directory", d.err)]
        ELSE IF v.err # NoErr
        THEN [path |-> <<>>, err |-> Wrap("invalid output file path", v.err)]
        ELSE v

\* The output path resolution of Run: the generated name when no output
\* file is given, the validated output file otherwise.
ResolveOutput(inputFile, outputFile, outputDir, points, timezoneOffset, cwd) ==
    LET g == generateOutputFilename(inputFile, outputDir, points, timezoneOffset, cwd)
        v == validateOutputPath(outputFile, cwd)
    IN  IF outputFile = <<>>
        THEN IF g.err # NoErr
             THEN [path |-> <<>>, err |-> Wrap("failed to generate output filename", g.err)]
             ELSE g
        ELSE IF v.err # NoErr
        THEN [path |-> <<>>, err |-> Wrap("invalid output file path", v.err)]
        ELSE v

(***************************************************************************)
(* Reader and file system (internal/fileio, package os).                   *)
(*                                                                         *)
(* What is found at the input path is one of: no readable file, bytes that *)
(* do not decode into a list of points, the JSON null (which decodes into  *)
(* the nil list), or a JSON array holding a list of points.                *)
(***************************************************************************)
Unread == [kind |-> "unread", points |-> <<>>]
Missing == [kind |-> "missing", points |-> <<>>]
Malformed == [kind |-> "malformed", points |-> <<>>]
JsonNull == [kind |-> "null", points |-> <<>>]
JsonArray(points) == [kind |-> "array", points |-> points]

\* ReadFrom without the check for an empty list.
ReadFrom_NoEmptyCheck(content) ==
    IF content.kind \notin {"array", "null"}
    THEN [points |-> <<>>, err |-> Err("failed to parse JSON", "")]
    ELSE [points |-> content.points, err |-> NoErr]

\* JSONReader.ReadFrom on the bytes of an opened file.
ReadFrom(content) ==
    IF content.kind \notin {"array", "null"}
    THEN [points |-> <<>>, err |-> Err("failed to parse JSON", "")]
    ELSE IF Len(content.points) = 0
    THEN [points |-> <<>>, err |-> Err("no data points found in JSON", "")]
    ELSE [points |-> content.points, err |-> NoErr]

\* JSONReader.Read.
Read(content) ==
    IF content.kind = "missing"
    THEN [points |-> <<>>, err |-> Err("failed to open file", "")]
    ELSE ReadFrom(content)

\* c.reader.Read: the JSON reader, or a substituted Reader that hands out
\* the empty list with no error and opens no file.
ReaderRead(reader, content) ==
    IF reader = "stub" THEN [points |-> <<>>, err |-> NoErr] ELSE Read(content)

\* A directory (absolute, cleaned) and all the directories above it.
RECURSIVE DirAndAncestors(_)
DirAndAncestors(dir) ==
    IF dir = <<"/">> THEN {dir} ELSE {dir} \cup DirAndAncestors(Dir(dir))

\* os.Mkdir in place of os.MkdirAll: only the directory itself is made.
MkdirAllTargets_OnlyLeaf(dir, cwd) == {Abs(dir, cwd)}

\* The directories os.MkdirAll(dir) makes sure exist.
MkdirAllTargets(dir, cwd) == DirAndAncestors(Abs(dir, cwd))

\* GPXWriter.Write when file creation, encoding and closing go as `outcome`
\* says: the error returned and what is left at the path.  The deferred
\* close assigns its error to a local variable after the result of Encode
\* has been returned.
Write(g, outcome) ==
    CASE outcome = "createFails" ->
           [err |-> Err("failed to create file", ""), file |-> [state |-> "absent", gpx |-> NilGPX]]
      [] outcome = "encodeFails" ->
           [err |-> Err("failed to write GPX", ""), file |-> [state |-> "partial", gpx |-> NilGPX]]
      [] outcome = "closeFails" ->
           [err |-> NoErr, file |-> [state |-> "unclosed", gpx |-> g]]
      [] outcome = "ok" ->
           [err |-> NoErr, file |-> [state |-> "complete", gpx |-> g]]

\* ParseHoursMinutes taking only decimal digits in the form without colon.
ParseHoursMinutes_ShortDigitsOnly(offset) ==
    IF ContainsChar(offset, ":")
    THEN LET parts == Split(offset, ":")
         IN  IF Len(parts) # 2
             THEN [hours |-> 0, minutes |-> 0,
                   err |-> Err("invalid timezone offset format",
                               "expected +-HH:MM format with exactly one colon")]
             ELSE IF Len(parts[1]) # 2 \/ Len(parts[2]) # 2
             THEN [hours |-> 0, minutes |-> 0,
                   err |-> Err("invalid timezone offset format",
                               "expected +-HH:MM format with 2-digit hours and minutes")]
             ELSE IF ~Atoi(parts[1]).ok
             THEN [hours |-> 0, minutes |-> 0,
                   err |-> Err("invalid hours in timezone offset",
                               "expected numeric value 00-14")]
             ELSE IF ~Atoi(parts[2]).ok
             THEN [hours |-> Atoi(parts[1]).val, minutes |-> 0,
                   err |-> Err("invalid minutes in timezone offset",
                               "expected numeric value 00-59")]
             ELSE [hours |-> Atoi(parts[1]).val, minutes |-> Atoi(parts[2]).val,
                   err |-> NoErr]
    ELSE IF Len(offset) # 4
         THEN [hours |-> 0, minutes |-> 0,
               err |-> Err("invalid timezone offset format",
                           "expected +-HHMM format with 4 digits")]
         ELSE IF \E n \in 1..4 : offset[n] \notin Digits
         THEN [hours |-> 0, minutes |-> 0,
               err |-> Err("invalid hours in timezone offset",
                           "expected numeric value 00-14")]
         ELSE IF ~Atoi(SubSeq(offset, 3, 4)).ok
         THEN [hours |-> Atoi(SubSeq(offset, 1, 2)).val, minutes |-> 0,
               err |-> Err("invalid minutes in timezone offset",
                           "expected numeric value 00-59")]
         ELSE [hours |-> Atoi(SubSeq(offset, 1, 2)).val,
               minutes |-> Atoi(SubSeq(offset, 3, 4)).val,
               err |-> NoErr]

(***************************************************************************)
(* ParseTimezoneOffset                                                     *)
(***************************************************************************)
\* The HH:MM / HHMM branch: the two numbers, or the error.
ParseHoursMinutes(offset) ==
    IF ContainsChar(offset, ":")
    THEN LET parts == Split(offset, ":")
         IN  IF Len(parts) # 2
             THEN [hours |-> 0, minutes |-> 0,
                   err |-> Err("invalid timezone offset format",
                               "expected +-HH:MM format with exactly one colon")]
             ELSE IF Len(parts[1]) # 2 \/ Len(parts[2]) # 2
             THEN [hours |-> 0, minutes |-> 0,
                   err |-> Err("invalid timezone offset format",
                               "expected +-HH:MM format with 2-digit hours and minutes")]
             ELSE IF ~Atoi(parts[1]).ok
             THEN [hours |-> 0, minutes |-> 0,
                   err |-> Err("invalid hours in timezone offset",
                               "expected numeric value 00-14")]
             ELSE IF ~Atoi(parts[2]).ok
             THEN [hours |-> Atoi(parts[1]).val, minutes |-> 0,
                   err |-> Err("invalid minutes in timezone offset",
                               "expected numeric value 00-59")]
             ELSE [hours |-> Atoi(parts[1]).val, minutes |-> Atoi(parts[2]).val,
                   err |-> NoErr]
    ELSE IF Len(offset) # 4
         THEN [hours |-> 0, minutes |-> 0,
               err |-> Err("invalid timezone offset format",
                           "expected +-HHMM format with 4 digits")]
         ELSE IF ~Atoi(SubSeq(offset, 1, 2)).ok
         THEN [hours |-> 0, minutes |-> 0,
               err |-> Err("invalid hours in timezone offset",
                           "expected numeric value 00-14")]
         ELSE IF ~Atoi(SubSeq(offset, 3, 4)).ok
         THEN [hours |-> Atoi(SubSeq(offset, 1, 2)).val, minutes |-> 0,
               err |-> Err("invalid minutes in timezone offset",
                           "expected numeric value 00-59")]
         ELSE [hours |-> Atoi(SubSeq(offset, 1, 2)).val,
               minutes |-> Atoi(SubSeq(offset, 3, 4)).val,
               err |-> NoErr]

\* ValidateRange with the lower bound mirrored from the upper one (-14:00).
ValidateRange_Symmetric(sign, hours, minutes) ==
    IF hours < 0 \/ hours > 14
    THEN [val |-> 0, err |-> Err("hours out of valid range", "expected 0-14")]
    ELSE IF minutes < 0 \/ minutes > 59
    THEN [val |-> 0, err |-> Err("minutes out of valid range", "expected 0-59")]
    ELSE IF hours = 14 /\ minutes > 0
    THEN [val |-> 0, err |-> Err("timezone offset out of valid range",
                                 "maximum offset is +14:00")]
    ELSE LET totalSeconds == sign * (hours * 3600 + minutes * 60)
         IN  IF totalSeconds < -14 * 3600 \/ totalSeconds > 14 * 3600
             THEN [val |-> 0, err |-> Err("timezone offset out of valid range",
                                          "expected -12:00 to +14:00")]
             ELSE [val |-> totalSeconds, err |-> NoErr]

\* ValidateRange with the minutes check moved in front of the hours check.
ValidateRange_MinutesFirst(sign, hours, minutes) ==
    IF minutes < 0 \/ minutes > 59
    THEN [val |-> 0, err |-> Err("minutes out of valid range", "expected 0-59")]
    ELSE IF hours < 0 \/ hours > 14
    THEN [val |-> 0, err |-> Err("hours out of valid range", "expected 0-14")]
    ELSE IF hours = 14 /\ minutes > 0
    THEN [val |-> 0, err |-> Err("timezone offset out of valid range",
                                 "maximum offset is +14:00")]
    ELSE LET totalSeconds == sign * (hours * 3600 + minutes * 60)
         IN  IF totalSeconds < -12 * 3600 \/ totalSeconds > 14 * 3600
             THEN [val |-> 0, err |-> Err("timezone offset out of valid range",
                                          "expected -12:00 to +14:00")]
             ELSE [val |-> totalSeconds, err |-> NoErr]

\* The range validation and the signed total.
ValidateRange(sign, hours, minutes) ==
    IF hours < 0 \/ hours > 14
    THEN [val |-> 0, err |-> Err("hours out of valid range", "expected 0-14")]
    ELSE IF minutes < 0 \/ minutes > 59
    THEN [val |-> 0, err |-> Err("minutes out of valid range", "expected 0-59")]
    ELSE IF hours = 14 /\ minutes > 0
    THEN [val |-> 0, err |-> Err("timezone offset out of valid range",
                                 "maximum offset is +14:00")]
    ELSE LET totalSeconds == sign * (hours * 3600 + minutes * 60)
         IN  IF totalSeconds < -12 * 3600 \/ totalSeconds > 14 * 3600
             THEN [val |-> 0, err |-> Err("timezone offset out of valid range",
                                          "expected -12:00 to +14:00")]
             ELSE [val |-> totalSeconds, err |-> NoErr]

ParseTimezoneOffset(offset) ==
    IF offset = <<>>
    THEN [val |-> 0, err |-> Err("timezone offset is empty", "")]
    ELSE IF Len(offset) < 3
    THEN [val |-> 0, err |-> Err("invalid timezone offset format",
                                 "expected +-HH:MM or +-HHMM")]
    ELSE IF offset[1] \notin {"+", "-"}
    THEN [val |-> 0, err |-> Err("timezone offset must start with + or -",
                                 "expected +-HH:MM or +-HHMM format")]
    ELSE LET sign == IF offset[1] = "+" THEN 1 ELSE -1
             hm   == ParseHoursMinutes(Tail(offset))
         IN  IF hm.err # NoErr
             THEN [val |-> 0, err |-> hm.err]
             ELSE ValidateRange(sign, hm.hours, hm.minutes)

\* Characters the explored offset strings are made of.
TzChars == {"+", "-", ":", "0", "1", "2", "4", "6"}

TzPending == [val |-> 0, err |-> Err("pending", "")]
CvPending == [gpx |-> NilGPX, err |-> Err("pending", "")]
NoFlags == [parsed |-> "ok", version |-> FALSE, nArg |-> 0, arg0 |-> <<>>,
            arg1 |-> <<>>, outputDir |-> <<>>, trackName |-> "", tz |-> <<>>]
IdlePoint == [Tm |-> 0, Lo |-> 0, La |-> 0, Al |-> <<>>, Sp |-> <<>>, Ds |-> <<>>]
PtPending == [Altitude |-> [val |-> 0, err |-> Err("pending", "")],
              Speed    |-> [val |-> 0, err |-> Err("pending", "")],
              Distance |-> [val |-> 0, err |-> Err("pending", "")]]
VpPending == [path |-> <<>>, err |-> Err("pending", "")]


InitTz ==
    /\ tzPc = "start"
    /\ \E n \in 0..MaxTzLen : tzIn \in [1..n -> TzChars]
    /\ tzOut = TzPending
    /\ vpPc = "idle" /\ vpIn = <<>> /\ vpCwd = <<"/">> /\ vpOut = VpPending
    /\ cvPc = "idle" /\ cvConfig = NilConfig /\ cvPoints = <<>>
    /\ cvName = "" /\ cvOut = CvPending
    /\ runInputFile = <<>> /\ runOutputFile = <<>> /\ runOutputDir = <<>>
    /\ runTrackName = "" /\ runTimezoneOffset = 0 /\ runCwd = <<"/">>
    /\ runReader = "json"
    /\ runPc = "idle" /\ runContent = Unread /\ runPoints = <<>> /\ runOutPath = <<>>
    /\ runName = "" /\ runGpxData = NilGPX /\ runErr = NoErr
    /\ dirs = {} /\ created = {} /\ files = <<>> /\ stdout = <<>> /\ calls = <<>>
    /\ ptPc = "idle" /\ ptIn = IdlePoint /\ ptOut = PtPending
    /\ mainPc = "idle" /\ mainFlags = NoFlags /\ mainErr = NoErr
    /\ exitCode = -1 /\ stderr = <<>>
    /\ batchTodo = <<>> /\ batchDone = <<>>

CallParseTimezoneOffset ==
    /\ tzPc = "start"
    /\ tzOut' = ParseTimezoneOffset(tzIn)
    /\ tzPc' = "done"
    /\ UNCHANGED <<tzIn, varsVp, varsCv, varsRun, varsPt, varsMain, varsBatch>>

NextTz == CallParseTimezoneOffset

(***************************************************************************)
(* validateOutputPath applied to every short path.                         *)
(***************************************************************************)
PathChars == {"/", ".", "a"}
Cwds == {<<"/">>, <<"/", "w">>}

InitVp ==
    /\ vpPc = "start"
    /\ \E n \in 0..MaxPathLen : vpIn \in [1..n -> PathChars]
    /\ vpCwd \in Cwds
    /\ vpOut = VpPending
    /\ tzPc = "idle" /\ tzIn = <<>> /\ tzOut = TzPending
    /\ cvPc = "idle" /\ cvConfig = NilConfig /\ cvPoints = <<>>
    /\ cvName = "" /\ cvOut = CvPending
    /\ runInputFile = <<>> /\ runOutputFile = <<>> /\ runOutputDir = <<>>
    /\ runTrackName = "" /\ runTimezoneOffset = 0 /\ runCwd = <<"/">>
    /\ runReader = "json"
    /\ runPc = "idle" /\ runContent = Unread /\ runPoints = <<>> /\ runOutPath = <<>>
    /\ runName = "" /\ runGpxData = NilGPX /\ runErr = NoErr
    /\ dirs = {} /\ created = {} /\ files = <<>> /\ stdout = <<>> /\ calls = <<>>
    /\ ptPc = "idle" /\ ptIn = IdlePoint /\ ptOut = PtPending
    /\ mainPc = "idle" /\ mainFlags = NoFlags /\ mainErr = NoErr
    /\ exitCode = -1 /\ stderr = <<>>
    /\ batchTodo = <<>> /\ batchDone = <<>>

CallValidateOutputPath ==
    /\ vpPc = "start"
    /\ vpOut' = validateOutputPath(vpIn, vpCwd)
    /\ vpPc' = "done"
    /\ UNCHANGED <<vpIn, vpCwd, varsTz, varsCv, varsRun, varsPt, varsMain, varsBatch>>

NextVp == CallValidateOutputPath

(***************************************************************************)
(* Convert applied to every short track.                                   *)
(***************************************************************************)
AlChars == {"1", ".", "a"}
Altitudes == SeqUpTo(AlChars, MaxAlLen)

\* Two samples, one of them from before 1970; every altitude string for each.
Points ==
    {[Tm |-> 1609459200, Lo |-> 139, La |-> 35, Al |-> al,
      Sp |-> <<>>, Ds |-> <<>>] : al \in Altitudes}
      \cup {[Tm |-> -1, Lo |-> 140, La |-> 36, Al |-> al,
             Sp |-> <<>>, Ds |-> <<>>] : al \in Altitudes}

\* The points with no altitude, a parsable one and an unparsable one; longer
\* tracks are made of these.
RunAltitudes == {<<>>, <<"1">>, <<"a">>}
SamplePoints == {p \in Points : p.Al \in RunAltitudes}

\* The sample points, also with a speed that is no number and with a
\* distance that is none.
VariedPoints ==
    SamplePoints
      \cup {[p EXCEPT !.Sp = <<"a">>] : p \in SamplePoints}
      \cup {[p EXCEPT !.Sp = <<"1">>, !.Ds = <<"a">>] : p \in SamplePoints}

TrackNames == {"", "Morning"}

ConfigArgs ==
    {NilConfig,
     [Version |-> "1.1", Creator |-> "zweg - ZweiteGPS to GPX Converter",
      IncludeWaypoint |-> FALSE],
     [Version |-> "", Creator |-> "", IncludeWaypoint |-> TRUE]}

InitCv ==
    /\ cvPc = "start"
    /\ cvConfig \in ConfigArgs
    /\ \/ \E n \in 0..MaxPoints : cvPoints \in [1..n -> Points]
       \/ \E n \in 0..MaxTrack : cvPoints \in [1..n -> VariedPoints]
    /\ cvName \in TrackNames
    /\ cvOut = CvPending
    /\ tzPc = "idle" /\ tzIn = <<>> /\ tzOut = TzPending
    /\ vpPc = "idle" /\ vpIn = <<>> /\ vpCwd = <<"/">> /\ vpOut = VpPending
    /\ runInputFile = <<>> /\ runOutputFile = <<>> /\ runOutputDir = <<>>
    /\ runTrackName = "" /\ runTimezoneOffset = 0 /\ runCwd = <<"/">>
    /\ runReader = "json"
    /\ runPc = "idle" /\ runContent = Unread /\ runPoints = <<>> /\ runOutPath = <<>>
    /\ runName = "" /\ runGpxData = NilGPX /\ runErr = NoErr
    /\ dirs = {} /\ created = {} /\ files = <<>> /\ stdout = <<>> /\ calls = <<>>
    /\ ptPc = "idle" /\ ptIn = IdlePoint /\ ptOut = PtPending
    /\ mainPc = "idle" /\ mainFlags = NoFlags /\ mainErr = NoErr
    /\ exitCode = -1 /\ stderr = <<>>
    /\ batchTodo = <<>> /\ batchDone = <<>>

CallConvert ==
    /\ cvPc = "start"
    /\ cvOut' = Convert(New(cvConfig), cvPoints, cvName)
    /\ cvPc' = "done"
    /\ UNCHANGED <<cvConfig, cvPoints, cvName, varsTz, varsVp, varsRun, varsPt, varsMain, varsBatch>>

NextCv == CallConvert

(***************************************************************************)
(* The command: main calls run, which parses the command line and calls    *)
(* CLI.Run; Run has one action per stage.                                  *)
(***************************************************************************)
InputFiles == {<<>>, <<"i">>, <<"/", "d", "/", "i">>}
OutputFiles ==
    {<<>>, <<"o">>, <<"e", "/", "o">>, <<"/", "d", "/", "o">>, <<".", ".", "/", "o">>}
OutputDirs == {<<>>, <<"e">>, <<"/", "d", "/", "f">>, <<".", ".", "/", "e">>}
\* Values of --timezone-offset: three offsets, one out of range, one with
\* no sign.
TzFlags ==
    {<<"+", "0", "0", ":", "0", "0">>, <<"+", "0", "9", ":", "0", "0">>,
     <<"-", "0", "5", "0", "0">>, <<"+", "1", "4", ":", "0", "1">>,
     <<"0", "9", "0", "0">>}
\* What flag.Parse makes of the command line: it fails on an undefined
\* flag ("bad"), prints the usage on -h ("help"), and otherwise yields the
\* flag values and the nArg positional arguments, of which the first two
\* are read.
Flags ==
    {f \in [parsed : {"ok", "bad", "help"}, version : BOOLEAN, nArg : 0..3,
            arg0 : InputFiles, arg1 : OutputFiles, outputDir : OutputDirs,
            trackName : TrackNames, tz : TzFlags] :
        /\ f.nArg < 1 => f.arg0 = <<>>
        /\ f.nArg < 2 => f.arg1 = <<>>
        /\ f.parsed # "ok" => /\ ~f.version /\ f.nArg = 0
                              /\ f.outputDir = <<>> /\ f.trackName = ""
                              /\ f.tz = <<"+", "0", "0", ":", "0", "0">>}
exitFailure == 1
Contents ==
    {Missing, Malformed, JsonNull} \cup {JsonArray(ps) : ps \in SeqUpTo(SamplePoints, MaxPoints)}
WriteOutcomes == {"createFails", "encodeFails", "closeFails", "ok"}

\* Offsets a caller other than the command passes to Run.
CallerOffsets == {0, 32400}

\* The process starts in main, which builds the CLI with the JSON reader;
\* or Run is called by other code on a CLI built with a substituted Reader.
InitRun ==
    /\ \/ /\ mainPc = "run"
          /\ mainFlags \in Flags
          /\ runReader = "json"
          /\ runInputFile = <<>> /\ runOutputFile = <<>> /\ runOutputDir = <<>>
          /\ runTrackName = "" /\ runTimezoneOffset = 0
          /\ runPc = "idle"
          /\ runName = ""
       \/ /\ mainPc = "caller"
          /\ mainFlags = NoFlags
          /\ runReader = "stub"
          /\ runInputFile \in InputFiles
          /\ runOutputFile \in OutputFiles
          /\ runOutputDir \in OutputDirs
          /\ runTrackName \in TrackNames
          /\ runTimezoneOffset \in CallerOffsets
          /\ runPc = "start"
          /\ runName = ""
    /\ mainErr = NoErr /\ exitCode = -1 /\ stderr = <<>>
    /\ runCwd \in Cwds
    /\ runContent = Unread /\ runPoints = <<>> /\ runOutPath = <<>>
    /\ runGpxData = NilGPX /\ runErr = NoErr
    /\ dirs = DirAndAncestors(runCwd) /\ created = {} /\ files = <<>>
    /\ stdout = <<>> /\ calls = <<>>
    /\ tzPc = "idle" /\ tzIn = <<>> /\ tzOut = TzPending
    /\ vpPc = "idle" /\ vpIn = <<>> /\ vpCwd = <<"/">> /\ vpOut = VpPending
    /\ cvPc = "idle" /\ cvConfig = NilConfig /\ cvPoints = <<>>
    /\ cvName = "" /\ cvOut = CvPending
    /\ ptPc = "idle" /\ ptIn = IdlePoint /\ ptOut = PtPending
    /\ batchTodo = <<>> /\ batchDone = <<>>

\* run returns e to main.
MainReturn(e) == mainErr' = e /\ mainPc' = "returned"

\* run reading the timezone offset only when the output name is to be
\* generated, that is when no output file is given.
MainRun_OffsetForGeneratedNames ==
    /\ mainPc = "run"
    /\ LET f  == mainFlags
           tz == IF f.nArg = 2 THEN [val |-> 0, err |-> NoErr]
                 ELSE ParseTimezoneOffset(f.tz)
       IN  IF f.parsed # "ok"
           THEN /\ exitCode' = IF f.parsed = "help" THEN 0 ELSE 2
                /\ mainPc' = "exited"
                /\ stderr' = Append(stderr, "Usage")
                /\ UNCHANGED <<mainErr, varsRun>>
           ELSE IF f.version
           THEN /\ MainReturn(NoErr)
                /\ stdout' = Append(stdout, "zweg version")
                /\ UNCHANGED <<exitCode, stderr, varsArgs, runPc, runContent, runPoints,
                               runOutPath, runName, runGpxData, runErr, dirs,
                               created, files, calls>>
           ELSE IF f.nArg < 1 \/ f.nArg > 2
           THEN /\ MainReturn(Err("1 or 2 arguments required (input file and optional output file)", ""))
                /\ stderr' = Append(stderr, "Usage")
                /\ UNCHANGED <<exitCode, varsRun>>
           ELSE IF tz.err # NoErr
           THEN /\ MainReturn(Wrap("invalid timezone offset", tz.err))
                /\ UNCHANGED <<exitCode, stderr, varsRun>>
           ELSE /\ runInputFile' = f.arg0
                /\ runOutputFile' = IF f.nArg = 2 THEN f.arg1 ELSE <<>>
                /\ runOutputDir' = f.outputDir
                /\ runTrackName' = f.trackName
                /\ runName' = f.trackName
                /\ runTimezoneOffset' = tz.val
                /\ runPc' = "start"
                /\ mainPc' = "inRun"
                /\ UNCHANGED <<mainErr, exitCode, stderr, runCwd, runReader, runContent,
                               runPoints, runOutPath, runGpxData, runErr, dirs,
                               created, files, stdout, calls>>
    /\ UNCHANGED mainFlags
    /\ UNCHANGED <<varsTz, varsVp, varsCv, varsPt, varsBatch>>

\* run, up to its call of c.Run: the command line is parsed (package flag
\* ends the process itself when that fails), then come the version flag,
\* the count of arguments and the timezone offset.
MainRun ==
    /\ mainPc = "run"
    /\ LET f  == mainFlags
           tz == ParseTimezoneOffset(f.tz)
       IN  IF f.parsed # "ok"
           THEN /\ exitCode' = IF f.parsed = "help" THEN 0 ELSE 2
                /\ mainPc' = "exited"
                /\ stderr' = Append(stderr, "Usage")
                /\ UNCHANGED <<mainErr, varsRun>>
           ELSE IF f.version
           THEN /\ MainReturn(NoErr)
                /\ stdout' = Append(stdout, "zweg version")
                /\ UNCHANGED <<exitCode, stderr, varsArgs, runPc, runContent, runPoints,
                               runOutPath, runName, runGpxData, runErr, dirs,
                               created, files, calls>>
           ELSE IF f.nArg < 1 \/ f.nArg > 2
           THEN /\ MainReturn(Err("1 or 2 arguments required (input file and optional output file)", ""))
                /\ stderr' = Append(stderr, "Usage")
                /\ UNCHANGED <<exitCode, varsRun>>
           ELSE IF tz.err # NoErr
           THEN /\ MainReturn(Wrap("invalid timezone offset", tz.err))
                /\ UNCHANGED <<exitCode, stderr, varsRun>>
           ELSE /\ runInputFile' = f.arg0
                /\ runOutputFile' = IF f.nArg = 2 THEN f.arg1 ELSE <<>>
                /\ runOutputDir' = f.outputDir
                /\ runTrackName' = f.trackName
                /\ runName' = f.trackName
                /\ runTimezoneOffset' = tz.val
                /\ runPc' = "start"
                /\ mainPc' = "inRun"
                /\ UNCHANGED <<mainErr, exitCode, stderr, runCwd, runReader, runContent,
                               runPoints, runOutPath, runGpxData, runErr, dirs,
                               created, files, stdout, calls>>
    /\ UNCHANGED mainFlags
    /\ UNCHANGED <<varsTz, varsVp, varsCv, varsPt, varsBatch>>

\* return c.Run(...): what Run returns is what run returns.
MainRunReturns ==
    /\ mainPc = "inRun"
    /\ runPc = "done"
    /\ MainReturn(runErr)
    /\ UNCHANGED <<mainFlags, exitCode, stderr, varsRun>>
    /\ UNCHANGED <<varsTz, varsVp, varsCv, varsPt, varsBatch>>

\* main: an error of run is printed to os.Stderr and the process exits with
\* exitFailure; otherwise main returns and the process exits with 0.
MainExit ==
    /\ mainPc = "returned"
    /\ IF mainErr # NoErr
       THEN /\ stderr' = Append(stderr, "Error: " \o mainErr.msg)
            /\ exitCode' = exitFailure
       ELSE /\ exitCode' = 0
            /\ UNCHANGED stderr
    /\ mainPc' = "exited"
    /\ UNCHANGED <<mainFlags, mainErr, varsRun>>
    /\ UNCHANGED <<varsTz, varsVp, varsCv, varsPt, varsBatch>>

\* Run returns e.
Return(e) == runErr' = e /\ runPc' = "done"

\* An empty inputFile is refused before anything is read.
RunCheckInput ==
    /\ runPc = "start"
    /\ IF runInputFile = <<>>
       THEN Return(Err("input file is required", ""))
       ELSE runPc' = "read" /\ UNCHANGED runErr
    /\ UNCHANGED <<varsArgs, runContent, runPoints, runOutPath, runName, runGpxData,
                   dirs, created, files, stdout, calls>>
    /\ UNCHANGED <<varsTz, varsVp, varsCv, varsPt, varsMain, varsBatch>>

\* points, err := c.reader.Read(inputFile).  A file that was opened lies in
\* an existing directory.
RunRead ==
    /\ runPc = "read"
    /\ \E c \in IF runReader = "stub" THEN {Missing} ELSE Contents :
          /\ runContent' = c
          /\ runPoints' = ReaderRead(runReader, c).points
          /\ IF ReaderRead(runReader, c).err # NoErr
             THEN Return(Wrap("failed to read input file", ReaderRead(runReader, c).err))
             ELSE runPc' = "resolve" /\ UNCHANGED runErr
          /\ dirs' = IF c.kind = "missing" THEN dirs
                     ELSE dirs \cup DirAndAncestors(Abs(Dir(runInputFile), runCwd))
    /\ calls' = Append(calls, "Read")
    /\ UNCHANGED <<varsArgs, runOutPath, runName, runGpxData, created, files, stdout>>
    /\ UNCHANGED <<varsTz, varsVp, varsCv, varsPt, varsMain, varsBatch>>

\* The output path is generated or validated; the track name is defaulted.
RunResolve ==
    /\ runPc = "resolve"
    /\ LET r == ResolveOutput(runInputFile, runOutputFile, runOutputDir, runPoints,
                              runTimezoneOffset, runCwd)
       IN  IF r.err # NoErr
           THEN Return(r.err) /\ UNCHANGED <<runOutPath, runName>>
           ELSE /\ runOutPath' = r.path
                /\ runName' = IF runTrackName = "" THEN "Track" ELSE runTrackName
                /\ runPc' = "mkdir"
                /\ UNCHANGED runErr
    /\ UNCHANGED <<varsArgs, runContent, runPoints, runGpxData, dirs, created, files,
                   stdout, calls>>
    /\ UNCHANGED <<varsTz, varsVp, varsCv, varsPt, varsMain, varsBatch>>

\* os.MkdirAll(filepath.Dir(outputFile), 0755), which the file system lets
\* succeed or not.
RunMkdirAll ==
    /\ runPc = "mkdir"
    /\ \E ok \in BOOLEAN :
          LET targets == MkdirAllTargets(Dir(runOutPath), runCwd)
          IN  IF ok
              THEN /\ dirs' = dirs \cup targets
                   /\ created' = created \cup (targets \ dirs)
                   /\ runPc' = "convert"
                   /\ UNCHANGED runErr
              ELSE /\ targets \ dirs # {}
                   /\ Return(Wrap("failed to create output directory",
                                  Err("mkdir", "")))
                   /\ UNCHANGED <<dirs, created>>
    /\ calls' = Append(calls, "MkdirAll")
    /\ UNCHANGED <<varsArgs, runContent, runPoints, runOutPath, runName, runGpxData, files, stdout>>
    /\ UNCHANGED <<varsTz, varsVp, varsCv, varsPt, varsMain, varsBatch>>

\* gpxData, err := c.converter.Convert(points, trackName), the converter
\* being converter.New(nil).
RunConvert ==
    /\ runPc = "convert"
    /\ LET r == Convert(New(NilConfig), runPoints, runName)
       IN  IF r.err # NoErr
           THEN Return(Wrap("failed to convert data", r.err)) /\ UNCHANGED runGpxData
           ELSE runGpxData' = r.gpx /\ runPc' = "write" /\ UNCHANGED runErr
    /\ calls' = Append(calls, "Convert")
    /\ UNCHANGED <<varsArgs, runContent, runPoints, runOutPath, runName, dirs, created,
                   files, stdout>>
    /\ UNCHANGED <<varsTz, varsVp, varsCv, varsPt, varsMain, varsBatch>>

\* c.writer.Write(outputFile, gpxData); the file can be created only in a
\* directory that exists.
RunWrite ==
    /\ runPc = "write"
    /\ \E outcome \in WriteOutcomes :
          LET w    == Write(runGpxData, outcome)
              path == Abs(runOutPath, runCwd)
          IN  /\ outcome # "createFails" => Dir(path) \in dirs
              /\ files' = IF w.file.state = "absent" THEN files
                          ELSE [q \in DOMAIN files \cup {path} |->
                                  IF q = path THEN w.file ELSE files[q]]
              /\ IF w.err # NoErr
                 THEN Return(Wrap("failed to write output file", w.err))
                 ELSE runPc' = "report" /\ UNCHANGED runErr
    /\ calls' = Append(calls, "Write")
    /\ UNCHANGED <<varsArgs, runContent, runPoints, runOutPath, runName, runGpxData, dirs,
                   created, stdout>>
    /\ UNCHANGED <<varsTz, varsVp, varsCv, varsPt, varsMain, varsBatch>>

\* The success message, when c.stdout is not nil; printing it can fail.
RunReport ==
    /\ runPc = "report"
    /\ \E out \in {"nil", "ok", "fails"} :
          /\ stdout' = IF out = "ok" THEN Append(stdout, "Successfully converted")
                       ELSE stdout
          /\ IF out = "fails"
             THEN Return(Wrap("failed to write output message", Err("write", "")))
             ELSE Return(NoErr)
    /\ UNCHANGED <<varsArgs, runContent, runPoints, runOutPath, runName, runGpxData, dirs,
                   created, files, calls>>
    /\ UNCHANGED <<varsTz, varsVp, varsCv, varsPt, varsMain, varsBatch>>

NextRun ==
    \/ MainRun
    \/ MainRunReturns
    \/ MainExit
    \/ RunCheckInput
    \/ RunRead
    \/ RunResolve
    \/ RunMkdirAll
    \/ RunConvert
    \/ RunWrite
    \/ RunReport

(***************************************************************************)
(* The accessors of a point applied to every short field string.           *)
(***************************************************************************)
FieldPoints ==
    [Tm : {1609459200}, Lo : {139}, La : {35},
     Al : Altitudes, Sp : Altitudes, Ds : Altitudes]

InitPt ==
    /\ ptPc = "start"
    /\ ptIn \in FieldPoints
    /\ ptOut = PtPending
    /\ tzPc = "idle" /\ tzIn = <<>> /\ tzOut = TzPending
    /\ vpPc = "idle" /\ vpIn = <<>> /\ vpCwd = <<"/">> /\ vpOut = VpPending
    /\ cvPc = "idle" /\ cvConfig = NilConfig /\ cvPoints = <<>>
    /\ cvName = "" /\ cvOut = CvPending
    /\ runInputFile = <<>> /\ runOutputFile = <<>> /\ runOutputDir = <<>>
    /\ runTrackName = "" /\ runTimezoneOffset = 0 /\ runCwd = <<"/">>
    /\ runReader = "json"
    /\ runPc = "idle" /\ runContent = Unread /\ runPoints = <<>> /\ runOutPath = <<>>
    /\ runName = "" /\ runGpxData = NilGPX /\ runErr = NoErr
    /\ dirs = {} /\ created = {} /\ files = <<>> /\ stdout = <<>> /\ calls = <<>>
    /\ mainPc = "idle" /\ mainFlags = NoFlags /\ mainErr = NoErr
    /\ exitCode = -1 /\ stderr = <<>>
    /\ batchTodo = <<>> /\ batchDone = <<>>

CallAccessors ==
    /\ ptPc = "start"
    /\ ptOut' = [Altitude |-> Altitude(ptIn), Speed |-> Speed(ptIn),
                 Distance |-> Distance(ptIn)]
    /\ ptPc' = "done"
    /\ UNCHANGED <<ptIn, varsTz, varsVp, varsCv, varsRun, varsMain, varsBatch>>

NextPt == CallAccessors

(***************************************************************************)
(* The batch loops of the README: for f in *.json; do zweg -d DIR          *)
(* --timezone-offset OFF "$f"; done.  Each turn of the loop is one run of   *)
(* the command on the next input file, with no output file and no track    *)
(* name, in the same working directory and on the same file system.        *)
(***************************************************************************)
\* The n-th input file of the loop: t1, t2, ...
BatchInput(n) == <<"t">> \o Pad(n, 1)

\* What an input file of the loop holds: one sample point with no altitude
\* or an unparsable one, or text that is no JSON.
BatchContents ==
    {Malformed} \cup {JsonArray(<<p>>) : p \in {q \in SamplePoints : q.Al \in {<<>>, <<"a">>}}}

\* One whole Run with no output file and no track name, on an input file
\* that holds content, the file system deciding the write as outcome: the
\* error returned, the path resolved and the file the writer left.
RunOnce(inputFile, outputDir, timezoneOffset, cwd, content, outcome) ==
    LET rd     == Read(content)
        rs     == ResolveOutput(inputFile, <<>>, outputDir, rd.points, timezoneOffset, cwd)
        cv     == Convert(New(NilConfig), rd.points, "Track")
        w      == Write(cv.gpx, outcome)
        absent == [state |-> "absent", gpx |-> NilGPX]
    IN  IF inputFile = <<>>
        THEN [err |-> Err("input file is required", ""), path |-> <<>>, file |-> absent]
        ELSE IF rd.err # NoErr
        THEN [err |-> Wrap("failed to read input file", rd.err), path |-> <<>>, file |-> absent]
        ELSE IF rs.err # NoErr
        THEN [err |-> rs.err, path |-> <<>>, file |-> absent]
        ELSE IF cv.err # NoErr
        THEN [err |-> Wrap("failed to convert data", cv.err), path |-> rs.path, file |-> absent]
        ELSE IF w.err # NoErr
        THEN [err |-> Wrap("failed to write output file", w.err), path |-> rs.path,
              file |-> w.file]
        ELSE [err |-> NoErr, path |-> rs.path, file |-> w.file]

\* The loop starts with up to MaxBatch input files and an empty record.
InitBatch ==
    /\ \E n \in 1..MaxBatch : batchTodo = [i \in 1..n |-> BatchInput(i)]
    /\ batchDone = <<>>
    /\ runOutputDir \in OutputDirs
    /\ runTimezoneOffset \in CallerOffsets
    /\ runCwd \in Cwds
    /\ files = <<>>
    /\ runInputFile = <<>> /\ runOutputFile = <<>> /\ runTrackName = ""
    /\ runReader = "json"
    /\ runPc = "idle" /\ runContent = Unread /\ runPoints = <<>> /\ runOutPath = <<>>
    /\ runName = "" /\ runGpxData = NilGPX /\ runErr = NoErr
    /\ dirs = {} /\ created = {} /\ stdout = <<>> /\ calls = <<>>
    /\ tzPc = "idle" /\ tzIn = <<>> /\ tzOut = TzPending
    /\ vpPc = "idle" /\ vpIn = <<>> /\ vpCwd = <<"/">> /\ vpOut = VpPending
    /\ cvPc = "idle" /\ cvConfig = NilConfig /\ cvPoints = <<>>
    /\ cvName = "" /\ cvOut = CvPending
    /\ ptPc = "idle" /\ ptIn = IdlePoint /\ ptOut = PtPending
    /\ mainPc = "idle" /\ mainFlags = NoFlags /\ mainErr = NoErr
    /\ exitCode = -1 /\ stderr = <<>>

\* One turn of the loop: the command runs on the next input file; os.Create
\* in the writer truncates whatever file is at the resolved path.
BatchRun ==
    /\ batchTodo # <<>>
    /\ \E content \in BatchContents : \E outcome \in WriteOutcomes :
       \E r \in {RunOnce(Head(batchTodo), runOutputDir, runTimezoneOffset, runCwd,
                         content, outcome)} :
       \E path \in {Abs(r.path, runCwd)} :
          /\ files' = IF r.file.state = "absent" THEN files
                      ELSE [q \in DOMAIN files \cup {path} |->
                              IF q = path THEN r.file ELSE files[q]]
          /\ batchDone' = Append(batchDone,
                                 [input |-> Head(batchTodo), path |-> r.path, err |-> r.err])
    /\ batchTodo' = Tail(batchTodo)
    /\ UNCHANGED <<varsArgs, runPc, runContent, runPoints, runOutPath, runName, runGpxData,
                   runErr, dirs, created, stdout, calls>>
    /\ UNCHANGED <<varsTz, varsVp, varsCv, varsPt, varsMain>>

NextBatch == BatchRun

SpecTz == InitTz /\ [][NextTz]_vars
SpecVp == InitVp /\ [][NextVp]_vars
SpecCv == InitCv /\ [][NextCv]_vars
SpecRun == InitRun /\ [][NextRun]_vars
SpecPt == InitPt /\ [][NextPt]_vars
SpecBatch == InitBatch /\ [][NextBatch]_vars

(***************************************************************************)
(* Claims about ParseTimezoneOffset (checked under SpecTz).                *)
(***************************************************************************)
TzDone == tzPc = "done"
TzAccepted == TzDone /\ tzOut.err = NoErr
TzRejected == TzDone /\ tzOut.err # NoErr

\* The two-character text t read as the claim's and README's formats read it:
\* a number written with an optional sign in front of the last digit.
IsNumeric2(t) == t[1] \in Digits \cup {"+", "-"} /\ t[2] \in Digits
Num2(t) ==
    (IF t[1] = "-" THEN -1 ELSE 1)
      * ((IF t[1] \in Digits THEN 10 * DigitVal(t[1]) ELSE 0) + DigitVal(t[2]))

ColonCount(s) == Cardinality({i \in 1..Len(s) : s[i] = ":"})

\* s is a sign, two digits, a colon and two digits.
IsSignedColonForm(s) ==
    /\ Len(s) = 6
    /\ s[1] \in {"+", "-"}
    /\ s[4] = ":"
    /\ \A i \in {2, 3, 5, 6} : s[i] \in Digits

\* s is a sign and four digits.
IsSignedDigitForm(s) ==
    /\ Len(s) = 5
    /\ s[1] \in {"+", "-"}
    /\ \A i \in 2..5 : s[i] \in Digits

\* Signed total, in seconds, of a string in one of the two forms.
SignedSeconds(s) ==
    LET d == IF Len(s) = 6 THEN <<s[2], s[3], s[5], s[6]>>
                           ELSE <<s[2], s[3], s[4], s[5]>>
    IN  (IF s[1] = "-" THEN -1 ELSE 1)
          * ((10 * DigitVal(d[1]) + DigitVal(d[2])) * 3600
             + (10 * DigitVal(d[3]) + DigitVal(d[4])) * 60)

\* C6: every value returned without error lies in -43200..50400; "+14:00" is
\* exactly 50400 and "-12:00" exactly -43200; every well-formed offset whose
\* signed total lies beyond those bounds is rejected, "-14:00" by the final
\* signed check and not by the hour check.
C6_OffsetRange ==
    TzDone =>
      /\ tzOut.err = NoErr => tzOut.val \in -43200..50400
      /\ tzIn = <<"+", "1", "4", ":", "0", "0">>
            => tzOut = [val |-> 50400, err |-> NoErr]
      /\ tzIn = <<"-", "1", "2", ":", "0", "0">>
            => tzOut = [val |-> -43200, err |-> NoErr]
      /\ (IsSignedColonForm(tzIn) \/ IsSignedDigitForm(tzIn))
            /\ SignedSeconds(tzIn) \notin -43200..50400
            => tzOut.err # NoErr /\ tzOut.val = 0
      /\ tzIn \in {<<"-", "1", "4", ":", "0", "0">>, <<"-", "1", "2", ":", "0", "1">>}
            => tzOut.err = Err("timezone offset out of valid range",
                               "expected -12:00 to +14:00")

C6_Witness ==
    /\ TzDone
    /\ tzIn = <<"-", "1", "4", ":", "0", "0">>
    /\ tzOut.err # NoErr

\* C7: ParseTimezoneOffset succeeds only for a sign followed by two digits,
\* a colon and two digits, or by four digits.
C7_OnlyDigitForms ==
    TzAccepted => IsSignedColonForm(tzIn) \/ IsSignedDigitForm(tzIn)

\* The checks of ParseTimezoneOffset in the order the claim lists them;
\* 0 when the string violates none.
TzFirstViolation(s) ==
    IF s = <<>> THEN 1
    ELSE IF Len(s) < 3 THEN 2
    ELSE IF s[1] \notin {"+", "-"} THEN 3
    ELSE LET rest  == Tail(s)
             colon == ColonCount(rest) > 0
             shape == IF colon
                      THEN ColonCount(rest) = 1 /\ Len(rest) = 5 /\ rest[3] = ":"
                      ELSE Len(rest) = 4
             hh    == SubSeq(rest, 1, 2)
             mm    == IF colon THEN SubSeq(rest, 4, 5) ELSE SubSeq(rest, 3, 4)
         IN  IF ~shape THEN 4
             ELSE IF ~IsNumeric2(hh) \/ ~IsNumeric2(mm) THEN 5
             ELSE IF Num2(hh) \notin 0..14 THEN 6
             ELSE IF Num2(mm) \notin 0..59 THEN 7
             ELSE IF Num2(hh) = 14 /\ Num2(mm) # 0 THEN 8
             ELSE IF (IF s[1] = "-" THEN -1 ELSE 1) * (Num2(hh) * 3600 + Num2(mm) * 60)
                        \notin -43200..50400 THEN 9
             ELSE 0

\* The message texts that report each check.
TzMessagesOf(k) ==
    CASE k = 1 -> {"timezone offset is empty"}
      [] k = 2 -> {"invalid timezone offset format"}
      [] k = 3 -> {"timezone offset must start with + or -"}
      [] k = 4 -> {"invalid timezone offset format"}
      [] k = 5 -> {"invalid hours in timezone offset", "invalid minutes in timezone offset"}
      [] k = 6 -> {"hours out of valid range"}
      [] k = 7 -> {"minutes out of valid range"}
      [] k = 8 -> {"timezone offset out of valid range"}
      [] k = 9 -> {"timezone offset out of valid range"}
      [] OTHER -> {}

\* Hints that name the expected format, and hints that name the valid range.
TzFormatHints ==
    {"expected +-HH:MM or +-HHMM",
     "expected +-HH:MM or +-HHMM format",
     "expected +-HH:MM format with exactly one colon",
     "expected +-HH:MM format with 2-digit hours and minutes",
     "expected +-HHMM format with 4 digits"}
TzRangeHints ==
    {"expected 0-14", "expected 0-59", "maximum offset is +14:00",
     "expected -12:00 to +14:00"}

\* C8: a rejected input yields value 0 and the error of the first check it
\* violates, the checks taken in the claim's order; format errors name the
\* expected format, range errors the valid range.
C8_ErrorIdentifiesFirstViolation ==
    TzRejected =>
      LET k == TzFirstViolation(tzIn)
      IN  /\ tzOut.val = 0
          /\ tzOut.err.msg \in TzMessagesOf(k)
          /\ k \in {2, 3, 4} => tzOut.err.expected \in TzFormatHints
          /\ k \in {6, 7} => tzOut.err.expected \in TzRangeHints
          /\ k = 8 => tzOut.err.expected = "maximum offset is +14:00"
          /\ k = 9 => tzOut.err.expected = "expected -12:00 to +14:00"

\* Hours and minutes both out of range: the hours are reported.
C8_Witness ==
    /\ TzRejected
    /\ tzIn = <<"+", "2", "4", ":", "6", "0">>
    /\ tzOut.err.msg = "hours out of valid range"

(***************************************************************************)
(* Claims about validateOutputPath (checked under SpecVp).                 *)
(***************************************************************************)
VpDone == vpPc = "done"

\* Some "/"-separated segment of p is "..".
HasDotDotSegment(p) ==
    \E i \in 1..Len(Split(p, "/")) : Split(p, "/")[i] = <<".", ".">>

\* Walking the segments from depth 0, some ".." is met at depth 0.
RECURSIVE ClimbsAbove(_, _)
ClimbsAbove(elems, depth) ==
    IF elems = <<>> THEN FALSE
    ELSE IF Head(elems) \in {<<>>, <<".">>} THEN ClimbsAbove(Tail(elems), depth)
    ELSE IF Head(elems) = <<".", ".">>
    THEN depth = 0 \/ ClimbsAbove(Tail(elems), depth - 1)
    ELSE ClimbsAbove(Tail(elems), depth + 1)

\* p is relative and its ".." segments lead above the directory it starts in,
\* so that its lexically cleaned form still begins with "..".
Escapes(p) == ~IsAbs(p) /\ ClimbsAbove(Split(p, "/"), 0)

\* C4 as stated: every input with a ".." segment is rejected with the
\* path-traversal error, "a/../b" and "/tmp/../etc" included.
C4_RejectsEveryDotDotSegment ==
    VpDone /\ HasDotDotSegment(vpIn) => vpOut.err = ErrPathTraversal

\* C4 as amended: every relative input whose ".." segments climb above its
\* starting directory (so that ".." survives lexical cleaning) is rejected
\* with the path-traversal error; "a/../a" and "/a/../a", whose ".." cleaning
\* reduces away, are accepted and resolve to <cwd>/a and /a.
C4_RejectsSurvivingDotDot ==
    VpDone =>
      /\ Escapes(vpIn) => vpOut = [path |-> <<>>, err |-> ErrPathTraversal]
      /\ vpIn = <<"a", "/", ".", ".", "/", "a">>
            => vpOut = [path |-> Join(vpCwd, <<"a">>), err |-> NoErr]
      /\ vpIn = <<"/", "a", "/", ".", ".", "/", "a">>
            => vpOut = [path |-> <<"/", "a">>, err |-> NoErr]

C4_Witness ==
    /\ VpDone
    /\ vpIn = <<"a", "/", ".", ".", "/", "a">>
    /\ vpOut.err = NoErr

\* An ordinary name: a segment with a character other than a dot in it.
IsOrdinaryName(e) == \E i \in 1..Len(e) : e[i] # "."

\* p is not empty and each of its segments is an ordinary name, "." or the
\* empty segment a doubled or trailing separator leaves.
OnlyNamesAndDot(p) ==
    /\ p # <<>>
    /\ \A i \in 1..Len(Split(p, "/")) :
          LET e == Split(p, "/")[i] IN e \in {<<>>, <<".">>} \/ IsOrdinaryName(e)

\* C5: the empty string gets the empty-path error; a path whose cleaned form
\* still begins with ".." gets the traversal error; a path made only of
\* ordinary names and "." segments succeeds with an absolute path.
C5_EmptyTraversalOrAbsolute ==
    VpDone =>
      /\ vpIn = <<>> => vpOut.err = ErrPathEmpty
      /\ Escapes(vpIn) => vpOut.err = ErrPathTraversal
      /\ OnlyNamesAndDot(vpIn) => vpOut.err = NoErr /\ IsAbs(vpOut.path)

(***************************************************************************)
(* Claims about Convert (checked under SpecCv).                            *)
(***************************************************************************)
CvDone == cvPc = "done"

\* The altitude string is empty or parses.
AltitudeParsable(p) == p.Al = <<>> \/ ParseFloat(p.Al).ok

\* C1: for a non-empty track whose altitude strings are all empty or
\* parsable, Convert returns a document with exactly one track holding
\* exactly one segment, whose i-th point carries the latitude, longitude,
\* parsed altitude and UTC timestamp of the i-th input point.
C1_TrackPointsInInputOrder ==
    (CvDone /\ cvPoints # <<>> /\ \A i \in 1..Len(cvPoints) : AltitudeParsable(cvPoints[i]))
      => /\ cvOut.err = NoErr
         /\ Len(cvOut.gpx.Trk) = 1
         /\ Len(cvOut.gpx.Trk[1].TrkSeg) = 1
         /\ LET trkPt == cvOut.gpx.Trk[1].TrkSeg[1].TrkPt
            IN  /\ Len(trkPt) = Len(cvPoints)
                /\ \A i \in 1..Len(cvPoints) :
                      /\ trkPt[i].Lat = cvPoints[i].La
                      /\ trkPt[i].Lon = cvPoints[i].Lo
                      /\ trkPt[i].Ele = (IF cvPoints[i].Al = <<>> THEN 0
                                         ELSE ParseFloat(cvPoints[i].Al).val)
                      /\ trkPt[i].Time = [unix |-> cvPoints[i].Tm, offset |-> 0]

\* Two different points, the later one first, with a decimal altitude.
C1_Witness ==
    /\ CvDone
    /\ Len(cvPoints) = 2
    /\ cvPoints[1].Tm > cvPoints[2].Tm
    /\ cvPoints[1].Al = <<".", "1">>
    /\ cvOut.err = NoErr
    /\ cvOut.gpx.Trk[1].TrkSeg[1].TrkPt[1].Ele = AlScale \div 10

(***************************************************************************)
(* Claims about CLI.Run (checked under SpecRun).                           *)
(***************************************************************************)
RunDone == runPc = "done"
RunSucceeded == RunDone /\ runErr = NoErr
RunResolved == runOutPath # <<>>
ErrEmptyInput == Err("no data points found in JSON", "")

\* C10: an input that decodes to the empty array makes the reader return
\* the empty-input error with no points, and Run return that error (wrapped)
\* having made no call but the read: no output path resolved, no directory
\* created, no conversion, no file written.  A read that succeeds never
\* yields an empty list.
C10_EmptyArrayFailsBeforeAnyOutput ==
    /\ runContent = JsonArray(<<>>)
         => /\ Read(runContent) = [points |-> <<>>, err |-> ErrEmptyInput]
            /\ RunDone
            /\ runErr = Wrap("failed to read input file", ErrEmptyInput)
            /\ runPoints = <<>>
            /\ ~RunResolved
            /\ created = {}
            /\ runGpxData = NilGPX
            /\ files = <<>>
            /\ calls = <<"Read">>
    /\ (runContent # Unread /\ Read(runContent).err = NoErr)
         => /\ Read(runContent).points # <<>>
            /\ runPoints = Read(runContent).points

\* Run has returned on the empty array.
C10_Witness ==
    /\ runContent = JsonArray(<<>>)
    /\ RunDone
    /\ runErr.msg = "failed to read input file: no data points found in JSON"

\* The part of a path after its last slash.
Base(path) ==
    LET slashes == {i \in 1..Len(path) : path[i] = "/"}
        last    == IF slashes = {} THEN 0
                   ELSE CHOOSE i \in slashes : \A j \in slashes : j <= i
    IN  SubSeq(path, last + 1, Len(path))

\* The Gregorian calendar, counted forward from 1 January 1970.
IsLeap(y) == y % 4 = 0 /\ (y % 100 # 0 \/ y % 400 = 0)
LeapsThrough(y) == (y \div 4) - (y \div 100) + (y \div 400)
DaysBeforeYear(y) == 365 * (y - 1970) + LeapsThrough(y - 1) - LeapsThrough(1969)
DaysBeforeMonth(y, m) ==
    <<0, 31, 59, 90, 120, 151, 181, 212, 243, 273, 304, 334>>[m]
      + (IF IsLeap(y) /\ m > 2 THEN 1 ELSE 0)
DaysInMonth(y, m) ==
    IF m = 2 THEN (IF IsLeap(y) THEN 29 ELSE 28)
    ELSE IF m \in {4, 6, 9, 11} THEN 30 ELSE 31

\* The text is YYYYMMDD-HHMMSS and names the civil time that lies `seconds`
\* after 1970-01-01 00:00:00.
RendersCivil(text, seconds) ==
    /\ Len(text) = 15
    /\ text[9] = "-"
    /\ \A i \in (1..15) \ {9} : text[i] \in Digits
    /\ LET y  == DecVal(SubSeq(text, 1, 4))
           mo == DecVal(SubSeq(text, 5, 6))
           d  == DecVal(SubSeq(text, 7, 8))
           h  == DecVal(SubSeq(text, 10, 11))
           mi == DecVal(SubSeq(text, 12, 13))
           sc == DecVal(SubSeq(text, 14, 15))
       IN  /\ mo \in 1..12
           /\ d \in 1..DaysInMonth(y, mo)
           /\ h \in 0..23 /\ mi \in 0..59 /\ sc \in 0..59
           /\ seconds = (DaysBeforeYear(y) + DaysBeforeMonth(y, mo) + d - 1) * 86400
                          + h * 3600 + mi * 60 + sc

Chars20210101000000 ==
    <<"2","0","2","1","0","1","0","1","-","0","0","0","0","0","0">>
Chars20210101090000 ==
    <<"2","0","2","1","0","1","0","1","-","0","9","0","0","0","0">>
Chars20201231190000 ==
    <<"2","0","2","0","1","2","3","1","-","1","9","0","0","0","0">>

\* C9: with no output file given and at least one point, the base name of
\* the generated path is the YYYYMMDD-HHMMSS rendering of the civil time of
\* points[0].Tm shifted by timezoneOffset seconds, followed by ".gpx"; for
\* Tm 1609459200 it is 20210101-000000.gpx at offset 0, 20210101-090000.gpx
\* at 32400 and 20201231-190000.gpx at -18000; and rendering the UTC
\* timestamp gives what rendering at a zero fixed offset gives.
C9_GeneratedBaseName ==
    (RunResolved /\ runOutputFile = <<>> /\ runPoints # <<>>)
      => LET base == Base(runOutPath)
             tm   == runPoints[1].Tm
             text == SubSeq(base, 1, Len(base) - 4)
         IN  /\ Len(base) = 19
             /\ SubSeq(base, 16, 19) = DotGpx
             /\ RendersCivil(text, tm + runTimezoneOffset)
             /\ (tm = 1609459200 /\ runTimezoneOffset = 0)
                  => text = Chars20210101000000
             /\ (tm = 1609459200 /\ runTimezoneOffset = 32400)
                  => text = Chars20210101090000
             /\ (tm = 1609459200 /\ runTimezoneOffset = -18000)
                  => text = Chars20201231190000
             /\ FormatTime(Timestamp(runPoints[1]))
                  = FormatTime(TimestampWithOffset(runPoints[1], 0))

\* A name generated west of Greenwich, on the day before the UTC date.
C9_Witness ==
    /\ RunResolved
    /\ runOutputFile = <<>>
    /\ runPoints # <<>>
    /\ runPoints[1].Tm = 1609459200
    /\ runTimezoneOffset = -18000
    /\ Base(runOutPath) = Chars20201231190000 \o DotGpx

\* The document of the points and the track name with every time the UTC
\* instant of its point.
UtcInstant(p) == [unix |-> p.Tm, offset |-> 0]
UtcDocument(ps, trk) ==
    [Version  |-> "1.1",
     Creator  |-> "zweg - ZweiteGPS to GPX Converter",
     Metadata |-> [Name |-> trk, Time |-> UtcInstant(ps[1])],
     Wpt      |-> <<WptType(ps[1].La, ps[1].Lo, Altitude(ps[1]).val,
                            UtcInstant(ps[1]), "Start"),
                    WptType(ps[Len(ps)].La, ps[Len(ps)].Lo, Altitude(ps[Len(ps)]).val,
                            UtcInstant(ps[Len(ps)]), "Goal")>>,
     Trk      |-> <<[Name   |-> trk,
                     TrkSeg |-> <<[TrkPt |->
                        [i \in 1..Len(ps) |->
                           WptType(ps[i].La, ps[i].Lo, Altitude(ps[i]).val,
                                   UtcInstant(ps[i]), "")]]>>]>>]

BothGiven == runOutputFile # <<>> /\ runOutputDir # <<>>
\* The directory that outputDir names.
OutputDirOnDisk == Abs(runOutputDir, runCwd)
\* Only the validated output file is used, and a run that succeeds wrote
\* the document there.
WritesValidatedOutputFile ==
    /\ RunResolved => runOutPath = validateOutputPath(runOutputFile, runCwd).path
    /\ DOMAIN files \subseteq {runOutPath}
    /\ RunSucceeded => /\ runOutPath \in DOMAIN files
                       /\ files[runOutPath].gpx = runGpxData

\* C3 as stated: given both an output file and an output directory, the
\* document is written to the validated output file and the output
\* directory is never created by the run.
C3_OutputDirNeverCreated ==
    BothGiven => /\ WritesValidatedOutputFile
                 /\ OutputDirOnDisk \notin created

\* C3: given both an output file and an output directory, the document is
\* written to the validated output file, and the run creates no directory
\* but the one holding that file and the directories above it; the output
\* directory is created only when it is one of those.
C3_OnlyOutputFileUsed ==
    BothGiven => /\ WritesValidatedOutputFile
                 /\ RunResolved => created \subseteq DirAndAncestors(Dir(runOutPath))
                 /\ ~RunResolved => created = {}
                 /\ OutputDirOnDisk \in created
                      => OutputDirOnDisk \in DirAndAncestors(Dir(runOutPath))

\* A run given both that succeeded and left the output directory missing.
C3_Witness ==
    /\ BothGiven
    /\ RunSucceeded
    /\ runOutPath \in DOMAIN files
    /\ created # {}
    /\ OutputDirOnDisk \notin dirs

\* No output file was given and the input held points.
NameGenerated == runOutputFile = <<>> /\ runPoints # <<>>

\* C11: with no output file and at least one point, the directory of the
\* resolved path is the validated, absolute output directory when one is
\* given and the directory of the input file otherwise; an output directory
\* that fails validation makes Run return the invalid-output-directory
\* error with no path resolved.
C11_GeneratedDirectory ==
    (NameGenerated /\ runPc \notin {"start", "read", "resolve"})
      => LET v == validateOutputPath(runOutputDir, runCwd)
         IN  /\ (runOutputDir # <<>> /\ v.err = NoErr)
                  => /\ RunResolved
                     /\ IsAbs(v.path)
                     /\ Dir(runOutPath) = v.path
             /\ runOutputDir = <<>>
                  => /\ RunResolved
                     /\ Dir(runOutPath) = Dir(runInputFile)
             /\ (runOutputDir # <<>> /\ v.err # NoErr)
                  => /\ ~RunResolved
                     /\ RunDone
                     /\ runErr = Wrap("failed to generate output filename",
                                      Wrap("invalid output directory", v.err))
                     /\ created = {} /\ files = <<>>

\* One run that resolved into a given relative directory, made absolute.
C11_Witness ==
    /\ NameGenerated
    /\ runOutputDir = <<"e">>
    /\ runCwd = <<"/", "w">>
    /\ Dir(runOutPath) = <<"/", "w", "/", "e">>

\* A run refused for its output directory.
C11_WitnessRefused ==
    /\ NameGenerated
    /\ RunDone
    /\ runOutputDir = <<".", ".", "/", "e">>
    /\ runErr.msg = "failed to generate output filename: invalid output directory: path contains invalid relative path components"

\* C12: whenever output-path resolution in Run succeeds, the resolved
\* output path is absolute, whatever inputFile, outputFile and outputDir.
C12_ResolvedPathAbsolute ==
    RunResolved => IsAbs(runOutPath)

\* The collaborator call was made.
Called(c) == \E i \in 1..Len(calls) : calls[i] = c
\* Call a was made, and before call b.
CalledBefore(a, b) ==
    \E i, j \in 1..Len(calls) : i < j /\ calls[i] = a /\ calls[j] = b
\* The directory of the resolved output path and every directory above it.
OutputDirChain == DirAndAncestors(Abs(Dir(runOutPath), runCwd))
ErrMkdir == Wrap("failed to create output directory", Err("mkdir", ""))

\* C13: in every run the writer is called only after the directory
\* creation, and with the directory of the resolved output path and all the
\* directories above it in existence; a failed directory creation ends the
\* run at once, with no conversion and no write.
C13_DirectoryBeforeWrite ==
    /\ Called("Write")
         => /\ CalledBefore("MkdirAll", "Write")
            /\ OutputDirChain \subseteq dirs
    /\ Called("Convert") => CalledBefore("MkdirAll", "Convert")
    /\ runPc \in {"convert", "write", "report"} => OutputDirChain \subseteq dirs
    /\ runErr = ErrMkdir
         => /\ RunDone
            /\ calls[Len(calls)] = "MkdirAll"
            /\ ~Called("Convert") /\ ~Called("Write")
            /\ runGpxData = NilGPX /\ files = <<>>

\* A run that made two nested directories and then wrote into them.
C13_Witness ==
    /\ RunSucceeded
    /\ Called("Write")
    /\ {<<"/", "d">>, <<"/", "d", "/", "f">>} \subseteq created
    /\ Dir(runOutPath) = <<"/", "d", "/", "f">>
    /\ runOutPath \in DOMAIN files

\* A run ended by the directory creation.
C13_WitnessFailed == runErr = ErrMkdir /\ RunDone

(***************************************************************************)
(* Further claims about Convert (checked under SpecCv).                    *)
(***************************************************************************)
ErrNoData == Err("no data points provided", "")

\* C14: Convert of the empty point sequence returns the no-data error and
\* the nil document, for every track name and every configuration.
C14_EmptyTrackRefused ==
    (CvDone /\ cvPoints = <<>>)
      => cvOut = [gpx |-> NilGPX, err |-> ErrNoData]

\* Convert has returned on the empty sequence, for a named track and a
\* caller's configuration.
C14_Witness ==
    /\ CvDone
    /\ cvPoints = <<>>
    /\ cvName = "Morning"
    /\ cvConfig # NilConfig
    /\ cvOut.err.msg = "no data points provided"

CvSucceeded == CvDone /\ cvOut.err = NoErr
\* The altitude the point's string stands for.
AltitudeOf(p) == IF p.Al = <<>> THEN 0 ELSE ParseFloat(p.Al).val
\* The waypoint of the given name at the point.
WaypointAt(p, label) ==
    [Lat |-> p.La, Lon |-> p.Lo, Ele |-> AltitudeOf(p),
     Time |-> [unix |-> p.Tm, offset |-> 0], Name |-> label]
\* Waypoint inclusion is on in the configuration the converter keeps.
WaypointsEnabled ==
    cvConfig = NilConfig \/ (cvConfig # NilConfig /\ cvConfig.IncludeWaypoint)

\* C15: with waypoint inclusion on, every successful Convert emits exactly
\* the two waypoints Start, at the first input point, and Goal, at the last
\* input point, in this order, each with the point's coordinates, parsed
\* altitude and UTC time, whatever the timestamps say about which point is
\* earliest; with one point both are at that point.  With inclusion off the
\* document has no waypoint.
C15_StartAndGoalByPosition ==
    CvSucceeded
      => /\ WaypointsEnabled
              => cvOut.gpx.Wpt = <<WaypointAt(cvPoints[1], "Start"),
                                   WaypointAt(cvPoints[Len(cvPoints)], "Goal")>>
         /\ ~WaypointsEnabled => cvOut.gpx.Wpt = <<>>

\* A track recorded backwards in time: Start is the later point.
C15_Witness ==
    /\ CvSucceeded
    /\ WaypointsEnabled
    /\ Len(cvPoints) = 2
    /\ cvPoints[1].Tm > cvPoints[2].Tm
    /\ cvOut.gpx.Wpt[1].Name = "Start"
    /\ cvOut.gpx.Wpt[1].Time.unix = cvPoints[1].Tm
    /\ cvOut.gpx.Wpt[2].Time.unix = cvPoints[2].Tm

\* A single point, and inclusion switched off.
C15_WitnessSingle ==
    /\ CvSucceeded /\ WaypointsEnabled /\ Len(cvPoints) = 1
    /\ cvOut.gpx.Wpt[1].Time = cvOut.gpx.Wpt[2].Time
C15_WitnessDisabled ==
    CvSucceeded /\ ~WaypointsEnabled /\ cvOut.gpx.Wpt = <<>>

\* Some point of the track has a non-empty altitude string that does not
\* parse.
SomeAltitudeBad == \E i \in 1..Len(cvPoints) : ~AltitudeParsable(cvPoints[i])

\* C16: when any point of the input, at any position, has a non-empty
\* unparsable altitude string, Convert returns an error and the nil
\* document, with waypoint inclusion on or off.
C16_BadAltitudeAborts ==
    (CvDone /\ SomeAltitudeBad)
      => /\ cvOut.err # NoErr
         /\ cvOut.gpx = NilGPX

\* The bad altitude in the middle of a track, with waypoints on, is found
\* by the track-point loop.
C16_Witness ==
    /\ CvDone
    /\ WaypointsEnabled
    /\ Len(cvPoints) = 3
    /\ AltitudeParsable(cvPoints[1]) /\ AltitudeParsable(cvPoints[3])
    /\ cvPoints[2].Al = <<"a">>
    /\ cvOut.gpx = NilGPX
    /\ cvOut.err.msg = "failed to parse altitude at point 1: failed to parse altitude"
    /\ cvOut.err.value = <<"a">>

\* The bad altitude at the end of a track, with waypoints off.
C16_WitnessDisabled ==
    /\ CvDone /\ ~WaypointsEnabled
    /\ Len(cvPoints) = 2
    /\ AltitudeParsable(cvPoints[1]) /\ ~AltitudeParsable(cvPoints[2])
    /\ cvOut.gpx = NilGPX /\ cvOut.err # NoErr

(***************************************************************************)
(* Claims about the accessors of a point (checked under SpecPt).           *)
(***************************************************************************)
PtDone == ptPc = "done"

\* What an accessor is to return for the raw string of its field: 0 for the
\* empty string, the number for a string that is one, and 0 with an error
\* that names the field and quotes the string otherwise.
FieldResult(raw, field) ==
    IF raw = <<>> THEN [val |-> 0, err |-> NoErr]
    ELSE IF ParseFloat(raw).ok
    THEN [val |-> ParseFloat(raw).val, err |-> NoErr]
    ELSE [val |-> 0,
          err |-> [msg |-> "failed to parse " \o field, expected |-> "",
                   value |-> raw]]

\* C17: each of Altitude, Speed and Distance returns 0 and no error for an
\* empty field, the parsed value and no error for a field that is a number
\* (".1" is a tenth, "11" is eleven), and 0 with an error naming the field
\* and the offending string for any other field; each result is fixed by
\* its own field alone.
C17_AccessorsDefaultParseOrFail ==
    PtDone
      => /\ ptOut.Altitude = FieldResult(ptIn.Al, "altitude")
         /\ ptOut.Speed = FieldResult(ptIn.Sp, "speed")
         /\ ptOut.Distance = FieldResult(ptIn.Ds, "distance")
         /\ ptIn.Sp = <<".", "1">>
              => ptOut.Speed = [val |-> AlScale \div 10, err |-> NoErr]
         /\ ptIn.Ds = <<"1", "1">>
              => ptOut.Distance = [val |-> 11 * AlScale, err |-> NoErr]
         /\ ptIn.Al = <<"1", "a">>
              => /\ ptOut.Altitude.val = 0
                 /\ ptOut.Altitude.err.msg = "failed to parse altitude"
                 /\ ptOut.Altitude.err.value = <<"1", "a">>

\* One point with no altitude, a speed of a tenth and a distance that is no
\* number.
C17_Witness ==
    /\ PtDone
    /\ ptIn.Al = <<>> /\ ptIn.Sp = <<".", "1">> /\ ptIn.Ds = <<"1", "a">>
    /\ ptOut.Altitude = [val |-> 0, err |-> NoErr]
    /\ ptOut.Speed.val > 0 /\ ptOut.Speed.err = NoErr
    /\ ptOut.Distance.val = 0
    /\ ptOut.Distance.err.msg = "failed to parse distance"

(***************************************************************************)
(* Claims about the document header (checked under SpecCv).                *)
(***************************************************************************)
\* C18: every document Convert returns has version 1.1 and a non-empty
\* creator, for every configuration New accepts: nil, the default, or a
\* caller's Config with only some fields set.
C18_VersionAndCreator ==
    CvSucceeded
      => /\ cvOut.gpx.Version = "1.1"
         /\ cvOut.gpx.Creator # ""

\* C19: the metadata name and the name of the track of a converted
\* document are both the given track name, or both the literal Track when
\* the given name is empty; the metadata time is the UTC timestamp of the
\* first point.
C19_NamesAndMetadataTime ==
    CvSucceeded
      => LET expected == IF cvName = "" THEN "Track" ELSE cvName
         IN  /\ cvOut.gpx.Metadata.Name = expected
             /\ Len(cvOut.gpx.Trk) = 1
             /\ cvOut.gpx.Trk[1].Name = expected
             /\ cvOut.gpx.Metadata.Time = [unix |-> cvPoints[1].Tm, offset |-> 0]

\* A track converted with no name given, its first point not the earliest.
C19_Witness ==
    /\ CvSucceeded
    /\ cvName = ""
    /\ Len(cvPoints) = 2
    /\ cvPoints[1].Tm > cvPoints[2].Tm
    /\ cvOut.gpx.Metadata.Name = "Track"
    /\ cvOut.gpx.Trk[1].Name = "Track"
    /\ cvOut.gpx.Metadata.Time.unix = 1609459200

\* A track converted under a given name.
C19_WitnessNamed ==
    CvSucceeded /\ cvName = "Morning" /\ cvOut.gpx.Trk[1].Name = "Morning"

(***************************************************************************)
(* Claims about the pipeline of Run and the exit status (SpecRun).         *)
(***************************************************************************)
Pipeline == <<"Read", "MkdirAll", "Convert", "Write">>
ErrNoInput == Err("input file is required", "")
\* What the stages of the run in hand return.
ReadOfRun == ReaderRead(runReader, runContent)
ResolveOfRun ==
    ResolveOutput(runInputFile, runOutputFile, runOutputDir, runPoints,
                  runTimezoneOffset, runCwd)
ConvertOfRun == Convert(New(NilConfig), runPoints, runName)
\* Run is past the stage.
PastCheck == runPc \notin {"idle", "start"}
PastRead == Called("Read")
PastResolve == PastRead /\ ReadOfRun.err = NoErr /\ runPc # "resolve"
\* Run ended with error e having made exactly the first n calls of the
\* pipeline.
EndedWith(e, n) ==
    RunDone /\ runErr = e /\ calls = SubSeq(Pipeline, 1, n)

\* The stages up to the conversion: a stage that fails ends the run with
\* its error, before any later stage.
StagesAbort ==
    /\ \E n \in 0..Len(Pipeline) : calls = SubSeq(Pipeline, 1, n)
    /\ runErr # NoErr => RunDone
    /\ (PastCheck /\ runInputFile = <<>>) => EndedWith(ErrNoInput, 0)
    /\ (PastRead /\ ReadOfRun.err # NoErr)
         => /\ EndedWith(Wrap("failed to read input file", ReadOfRun.err), 1)
            /\ ~RunResolved /\ created = {} /\ files = <<>>
    /\ (PastResolve /\ ResolveOfRun.err # NoErr)
         => /\ EndedWith(ResolveOfRun.err, 1)
            /\ ~RunResolved /\ created = {} /\ files = <<>>
    /\ runErr = ErrMkdir => EndedWith(ErrMkdir, 2) /\ files = <<>>
    /\ (Called("Convert") /\ ConvertOfRun.err # NoErr)
         => /\ EndedWith(Wrap("failed to convert data", ConvertOfRun.err), 3)
            /\ runGpxData = NilGPX /\ files = <<>>

\* The process exits with exitFailure exactly when run returned an error,
\* which is the error of Run when Run was called.
ExitTellsError ==
    /\ (mainPc \in {"returned", "exited"} /\ RunDone) => mainErr = runErr
    /\ mainPc = "exited"
         => /\ exitCode = 1 <=> mainErr # NoErr
            /\ mainErr # NoErr => stderr = <<"Error: " \o mainErr.msg>>
                                  \/ stderr = <<"Usage", "Error: " \o mainErr.msg>>

\* A write that failed, in creating, encoding or closing the file, ends
\* the run with an error and before the report.
WriteFailureReturned ==
    (Called("Write")
       /\ \/ Abs(runOutPath, runCwd) \notin DOMAIN files
          \/ files[Abs(runOutPath, runCwd)].state # "complete")
      => /\ RunDone
         /\ runErr # NoErr
         /\ stdout = <<>>

\* C20: Run is a linear pipeline (check inputFile, read, resolve the output
\* path, create the directory, convert, write, report) in which a failure
\* at any stage ends the run before every later stage and is returned to
\* the caller, and the process exits with code 1 exactly when run returns
\* an error.
C20_FailureAbortsAndIsReturned ==
    /\ StagesAbort
    /\ WriteFailureReturned
    /\ ExitTellsError

\* The stages before the write, and the exit status.
StagesAbortAndExitTellsError == StagesAbort /\ ExitTellsError

(***************************************************************************)
(* Claims about what Run does not depend on (SpecRun).                     *)
(***************************************************************************)
\* The resolution of the run in hand, had the output directory been d.
ResolveWithDir(d) ==
    ResolveOutput(runInputFile, runOutputFile, d, runPoints,
                  runTimezoneOffset, runCwd)
\* What validating the output file alone gives.
OutputFileAlone ==
    LET v == validateOutputPath(runOutputFile, runCwd)
    IN  IF v.err # NoErr
        THEN [path |-> <<>>, err |-> Wrap("invalid output file path", v.err)]
        ELSE v

\* C21: with an output file given, the resolution is the same for every
\* output directory, those that validateOutputPath refuses included, and
\* is that of the output file alone; the run fails on the output file or
\* goes on with the validated output file, creates only directories above
\* it and writes only there.
C21_OutputDirUnusedWithOutputFile ==
    (runOutputFile # <<>> /\ PastRead /\ ReadOfRun.err = NoErr)
      => /\ runPc = "resolve"
              => \A d \in OutputDirs : ResolveWithDir(d) = OutputFileAlone
         /\ runPc # "resolve"
              => /\ OutputFileAlone.err # NoErr
                      => EndedWith(OutputFileAlone.err, 1) /\ ~RunResolved
                 /\ OutputFileAlone.err = NoErr
                      => /\ runOutPath = OutputFileAlone.path
                         /\ created \subseteq DirAndAncestors(Dir(runOutPath))
                         /\ DOMAIN files \subseteq {runOutPath}

\* A run that succeeded with an output file next to an output directory
\* that would have been refused.
C21_Witness ==
    /\ RunSucceeded
    /\ runOutputFile = <<"o">>
    /\ runOutputDir = <<".", ".", "/", "e">>
    /\ validateOutputPath(runOutputDir, runCwd).err # NoErr
    /\ runOutPath \in DOMAIN files

(***************************************************************************)
(* Claims about what Convert does not depend on (SpecCv).                  *)
(***************************************************************************)
\* The points with their speed and distance strings emptied.
Bare(ps) == [i \in 1..Len(ps) |-> [ps[i] EXCEPT !.Sp = <<>>, !.Ds = <<>>]]

\* C22: what Convert returns, error or document, is fixed by the
\* timestamp, latitude, longitude and altitude string of each point: it is
\* what Convert returns for the same points with empty speed and distance
\* strings, also when a speed or a distance is no number.
C22_OnlyTimePlaceAltitude ==
    CvDone => cvOut = Convert(New(cvConfig), Bare(cvPoints), cvName)

\* A track converted although the speed of its first point and the
\* distance of its second are no numbers.
C22_Witness ==
    /\ CvSucceeded
    /\ Len(cvPoints) >= 2
    /\ Speed(cvPoints[1]).err # NoErr
    /\ Distance(cvPoints[2]).err # NoErr
    /\ Len(cvOut.gpx.Trk[1].TrkSeg[1].TrkPt) = Len(cvPoints)

(***************************************************************************)
(* Claims relating the two offset forms (SpecTz).                          *)
(***************************************************************************)
\* The string is a sign, two characters, a colon and two characters, with
\* no colon among the four.
IsColonShape(s) ==
    /\ Len(s) = 6
    /\ s[1] \in {"+", "-"}
    /\ s[4] = ":"
    /\ \A i \in {2, 3, 5, 6} : s[i] # ":"
\* The same string without its colon.
WithoutColon(s) == SubSeq(s, 1, 3) \o SubSeq(s, 5, 6)
\* The same string under the other sign.
Negated(s) == <<IF s[1] = "+" THEN "-" ELSE "+">> \o Tail(s)

\* C23: for a sign s and two-character strings HH and MM without a colon,
\* s HH:MM and s HHMM have the same outcome, both refused or both the same
\* number of seconds; and when the + form and the - form of a magnitude are
\* both accepted, the one is the negation of the other.
C23_FormsAgree ==
    /\ (TzDone /\ IsColonShape(tzIn))
         => LET short == ParseTimezoneOffset(WithoutColon(tzIn))
            IN  /\ tzOut.err = NoErr <=> short.err = NoErr
                /\ tzOut.val = short.val
    /\ (TzAccepted /\ Len(tzIn) >= 1 /\ tzIn[1] \in {"+", "-"}
          /\ ParseTimezoneOffset(Negated(tzIn)).err = NoErr)
         => ParseTimezoneOffset(Negated(tzIn)).val = -tzOut.val

\* +12:00 was accepted, as +1200 and -12:00 are.
C23_Witness ==
    /\ TzAccepted
    /\ tzIn = <<"+", "1", "2", ":", "0", "0">>
    /\ tzOut.val = 43200
    /\ ParseTimezoneOffset(WithoutColon(tzIn)).val = 43200
    /\ ParseTimezoneOffset(Negated(tzIn)).val = -43200

\* A colon form refused, as its form without colon is.
C23_WitnessRefused ==
    /\ TzRejected
    /\ IsColonShape(tzIn)
    /\ ParseTimezoneOffset(WithoutColon(tzIn)).err # NoErr

\* ---------------------------------------------------------------------
\* C24: when a substituted Reader hands Run the empty list with no error
\* and no output file is given, the path resolved is the input file name
\* followed by ".gpx", whatever the output directory (which is not
\* validated) and the offset are; the conversion then refuses the empty
\* list with the no-data error, Write is never called and no file exists.
\* (The directory creation between the two may fail first.)
EmptyFromReader == runReader = "stub" /\ PastRead

FallbackName(d, o) == generateOutputFilename(runInputFile, d, <<>>, o, runCwd)

OffsetOfFlags == ParseTimezoneOffset(mainFlags.tz)
CountOk == mainFlags.nArg \in {1, 2}
FromCommand == mainPc # "caller"
RunUntouched ==
    /\ runPc = "idle" /\ calls = <<>> /\ runContent = Unread
    /\ created = {} /\ dirs = DirAndAncestors(runCwd) /\ files = <<>>
ErrArgCount == Err("1 or 2 arguments required (input file and optional output file)", "")

C25_OffsetParsedBeforeRun ==
    (FromCommand /\ mainFlags.parsed = "ok") =>
        /\ (mainPc # "run" /\ ~mainFlags.version /\ CountOk /\ OffsetOfFlags.err # NoErr)
             => /\ mainErr = Wrap("invalid timezone offset", OffsetOfFlags.err)
                /\ RunUntouched /\ stdout = <<>>
                /\ mainPc = "exited" => exitCode = exitFailure
        /\ (mainPc # "run" /\ ~mainFlags.version /\ ~CountOk)
             => mainErr = ErrArgCount /\ RunUntouched
        /\ runPc # "idle"
             => /\ ~mainFlags.version /\ CountOk /\ OffsetOfFlags.err = NoErr
                /\ runTimezoneOffset = OffsetOfFlags.val
        /\ (mainPc # "run" /\ mainFlags.version)
             => /\ mainErr = NoErr /\ RunUntouched
                /\ mainPc = "exited" => exitCode = 0

\* The command has exited on a bad offset given with an output file.
C25_Witness ==
    /\ FromCommand /\ mainFlags.parsed = "ok" /\ ~mainFlags.version
    /\ mainFlags.nArg = 2 /\ mainFlags.arg1 # <<>>
    /\ OffsetOfFlags.err # NoErr
    /\ mainPc = "exited" /\ exitCode = exitFailure

\* The command has exited on --version given with no argument and a bad
\* offset.
C25_WitnessVersion ==
    /\ FromCommand /\ mainFlags.version /\ mainFlags.nArg = 0
    /\ OffsetOfFlags.err # NoErr
    /\ mainPc = "exited" /\ exitCode = 0

\* ---------------------------------------------------------------------
\* C26: a run that returns an error leaves the file system as it was when
\* the run began: it has created no directory and no file, and in
\* particular a failed conversion leaves no new directory behind.
RunFailed == RunDone /\ runErr # NoErr

C26_FailedRunLeavesNoTrace ==
    RunFailed => created = {} /\ files = <<>>

\* ---------------------------------------------------------------------
\* C27: Run returns nil exactly when the writer has written the output
\* file: no run has its output file completely written and yet returns an
\* error.
OutputWritten ==
    /\ RunResolved
    /\ Abs(runOutPath, runCwd) \in DOMAIN files
    /\ files[Abs(runOutPath, runCwd)].state = "complete"

C27_NilExactlyWhenWritten ==
    RunDone => (runErr = NoErr <=> OutputWritten)

\* ---------------------------------------------------------------------
\* C28: GPXWriter.Write returns an error whenever creating the file,
\* encoding the document or closing the file fails; a failed close is
\* reported to the caller.
WriteFails(outcome) == outcome \in {"createFails", "encodeFails", "closeFails"}

C28_WriteReportsEveryFailure ==
    /\ runPc = "write" =>
          \A outcome \in WriteOutcomes :
              WriteFails(outcome) => Write(runGpxData, outcome).err # NoErr
    /\ \A q \in DOMAIN files :
          files[q].state = "unclosed" => runPc = "done" /\ runErr # NoErr

\* ---------------------------------------------------------------------
\* C30: validateOutputPath accepts every non-empty path whose lexically
\* cleaned form has no ".." component and returns it in absolute form;
\* two dots inside an ordinary name, as in "a..a" or "a../a", do not
\* matter.
C30_AcceptsWithoutDotDotComponent ==
    (VpDone /\ vpIn # <<>> /\ ~HasDotDotSegment(Clean(vpIn)))
      => vpOut = [path |-> Abs(Clean(vpIn), vpCwd), err |-> NoErr]

(***************************************************************************)
(* Claims about batches of runs (checked under SpecBatch).                 *)
(***************************************************************************)
\* Every run made so far returned nil.
AllSucceeded == \A i \in 1..Len(batchDone) : batchDone[i].err = NoErr

\* C29: in a loop of successful runs with generated names over distinct
\* input files, one output directory and one offset, distinct inputs
\* resolve to distinct paths: after k runs the file system holds k files
\* and no run has written over the output of an earlier one, also when two
\* tracks start in the same second.
C29_DistinctInputsDistinctOutputs ==
    AllSucceeded =>
        /\ \A i, j \in 1..Len(batchDone) :
              i # j => batchDone[i].path # batchDone[j].path
        /\ Cardinality(DOMAIN files) = Len(batchDone)

=============================================================================
